---- MODULE Spec2Model ----
(***************************************************************************)
(* Model of the interface subsystem of smc-python (smc/core/interfaces.py).*)
(*                                                                         *)
(* Strings that the code splits or formats (interface ids, nic ids) are    *)
(* sequences of tokens: '1' is <<"1">>, '1.5' is <<"1", ".", "5">> and     *)
(* '2-3' is <<"2", "-", "3">>.  Python's None is the empty sequence for    *)
(* such values (str(None) is <<"None">>) and the string "None" for atomic  *)
(* values (addresses, networks, zones, comments).                          *)
(***************************************************************************)
EXTENDS Integers, Sequences, FiniteSets, TLC

VARIABLES
    engine_type,   \* engine.type
    interfaces,    \* engine.data['physicalInterfaces'] as loaded by the client
    routing,       \* engine.routing: the routing entries of the engine
    requests,      \* modifying requests issued by the operation in progress
    cache_valid,   \* FALSE once engine._del_cache() ran after the last load
    pre,           \* history: interfaces when the last operation was called
    call,          \* history: the last operation called, with its arguments
    prev,          \* history: the operation called before it, and its outcome
    outcome,       \* how the last operation ended: return value or exception
    builder,       \* the InterfaceBuilder in use, and the interface it was loaded from
    credentials    \* the TLS server credentials the management server holds, by name

vars == <<engine_type, interfaces, routing, requests, cache_valid,
          pre, call, prev, outcome, builder, credentials>>

None == <<>>
NoneA == "None"

-----------------------------------------------------------------------------
(* Python string helpers *)

\* str(x) of an id: str(None) = 'None'
Str(x) == IF x = None THEN <<"None">> ELSE x

\* s.split(sep)
RECURSIVE Split(_, _)
Split(s, sep) ==
    IF \A i \in 1..Len(s) : s[i] # sep
    THEN <<s>>
    ELSE LET i == CHOOSE k \in 1..Len(s) :
                      s[k] = sep /\ \A j \in 1..(k-1) : s[j] # sep
         IN  <<SubSeq(s, 1, i-1)>> \o Split(SubSeq(s, i+1, Len(s)), sep)

Last(seq) == seq[Len(seq)]

\* '{}.{}'.format(a, b)
Dot(a, b) == a \o <<".">> \o b

\* '-'.join(parts)
RECURSIVE JoinDash(_)
JoinDash(parts) ==
    IF Len(parts) = 0 THEN <<>>
    ELSE IF Len(parts) = 1 THEN parts[1]
    ELSE parts[1] \o <<"-">> \o JoinDash(Tail(parts))

\* [f(x) for x in seq]
Map(seq, F(_)) == [i \in DOMAIN seq |-> F(seq[i])]

\* 'word' in engine.type
TypeContains(type, word) ==
    word \in (CASE type = "single_fw"      -> {}
                [] type = "virtual_fw"     -> {}
                [] type = "fw_cluster"     -> {"cluster"}
                [] type = "master_engine"  -> {"master"}
                [] type = "single_layer2"  -> {"layer2"}
                [] type = "layer2_cluster" -> {"layer2", "cluster"}
                [] type = "single_ips"     -> {"ips"}
                [] type = "ips_cluster"    -> {"ips", "cluster"})

-----------------------------------------------------------------------------
(* Sub-interface fragments (smc.core.sub_interfaces).  A fragment is a     *)
(* record; a key the fragment does not have is a field the record does not *)
(* have, and reading it gives None (SubInterface.__getattr__).             *)

\* isinstance(sub, InlineInterface): the layer 3 inline types subclass it
IsInline(s) ==
    s.typeof \in {"inline_interface", "inline_l2fw_interface", "inline_ips_interface"}

IsCVI(s) == s.typeof = "cluster_virtual_interface"

\* isinstance(sub, NodeInterface): SingleNodeInterface subclasses NodeInterface
IsNode(s) == s.typeof \in {"node_interface", "single_node_interface"}

\* getattr(sub, key) is not None
Has(s, key) == key \in DOMAIN s

\* bool(getattr(sub, key, None)) for a flag
Truthy(s, key) == Has(s, key) /\ s[key] = TRUE

\* getattr(sub, 'address', None) / sub.network_value
AddressOf(s) == IF Has(s, "address") THEN s.address ELSE NoneA
NetworkOf(s) == IF Has(s, "network_value") THEN s.network_value ELSE NoneA

\* SingleNodeInterface.create(interface_id, address, network_value, nicid=...)
SingleNodeInterface(nicid, address, network_value) ==
    [typeof |-> "single_node_interface", nicid |-> nicid, address |-> address,
     network_value |-> network_value, nodeid |-> 1,
     auth_request |-> FALSE, backup_mgt |-> FALSE,
     outgoing |-> FALSE, primary_mgt |-> FALSE]

\* NodeInterface.create(interface_id, address, network_value, nodeid, nicid=...)
NodeInterface(nicid, address, network_value, nodeid) ==
    [typeof |-> "node_interface", nicid |-> nicid, address |-> address,
     network_value |-> network_value, nodeid |-> nodeid,
     auth_request |-> FALSE, backup_mgt |-> FALSE,
     outgoing |-> FALSE, primary_mgt |-> FALSE]

\* ClusterVirtualInterface.create(interface_id, address, network_value, nicid=...)
ClusterVirtualInterface(nicid, address, network_value) ==
    [typeof |-> "cluster_virtual_interface", nicid |-> nicid, address |-> address,
     network_value |-> network_value, auth_request |-> FALSE]

\* InlineInterface.create(interface_id, logical_interface_ref)
InlineInterface(nicid) ==
    [typeof |-> "inline_interface", nicid |-> nicid,
     logical_interface_ref |-> "logical", failure_mode |-> "normal"]

\* CaptureInterface.create(interface_id, logical_interface_ref)
CaptureInterface(nicid) ==
    [typeof |-> "capture_interface", nicid |-> nicid,
     logical_interface_ref |-> "logical"]

\* zone_helper(zone): None stays None, an href is returned as it is, a zone
\* name is resolved to the href of the zone of that name
zone_helper(zone) ==
    IF zone = NoneA THEN NoneA
    ELSE CASE zone = "zoneA" -> "href:zoneA"
           [] zone = "zoneB" -> "href:zoneB"
           [] OTHER          -> zone

\* PhysicalVlanInterface.create(interface_id, vlan_id, zone_ref=, interface=, comment=)
PhysicalVlanInterface_create(interface_id, vlan_id, zone_ref, subs, comment) ==
    [interface_id |-> Dot(Str(interface_id), Str(vlan_id)),
     interfaces |-> subs,
     zone_ref |-> zone_helper(zone_ref),
     comment |-> comment]

\* The JSON body of a top level physical interface
PhysicalInterface(interface_id, subs, vlans) ==
    [interface_id |-> interface_id, interfaces |-> subs, vlanInterfaces |-> vlans,
     zone_ref |-> NoneA, comment |-> NoneA, macaddress |-> NoneA]

\* has_vlan that never sees a VLAN
has_vlan_never(intf) == FALSE

\* Interface.has_vlan / Interface.has_interfaces
has_vlan(intf) == Len(intf.vlanInterfaces) > 0
has_interfaces(intf) == Len(intf.interfaces) > 0

-----------------------------------------------------------------------------
(* Lookups.  An interface object is a reference into engine data: a top    *)
(* level interface (its index) or a VLAN of one (both indexes); the        *)
(* wrappers share the dicts of the engine data, so a write through a       *)
(* wrapper is a write to engine data.                                      *)

TopRef(i) == [kind |-> "top", i |-> i, v |-> 0]
VlanRef(i, v) == [kind |-> "vlan", i |-> i, v |-> v]
NotFound == [kind |-> "none", i |-> 0, v |-> 0]

Range(seq) == {seq[i] : i \in DOMAIN seq}

\* PhysicalVlanInterface.vlan_id
vlan_id(vlan) ==
    LET first == Last(Split(vlan.interface_id, "."))
    IN  IF Len(vlan.interfaces) > 0
           /\ vlan.interfaces[1].typeof = "inline_interface"
        THEN LET v_split == Split(vlan.interfaces[1].nicid, "-")
                 second_vlan == Last(Split(Last(v_split), "."))
             IN  IF second_vlan # first
                 THEN JoinDash(<<first, second_vlan>>)
                 ELSE first
        ELSE first

\* VlanCollection.get_vlan(vlan_id): index of the VLAN, 0 for InterfaceNotFound
get_vlan(intf, vid) ==
    LET hits == {v \in DOMAIN intf.vlanInterfaces :
                    vlan_id(intf.vlanInterfaces[v]) = Str(vid)}
    IN  IF hits = {} THEN 0 ELSE CHOOSE v \in hits : \A w \in hits : v <= w

\* The loop of InterfaceModifier.get from interface k on
RECURSIVE GetFrom(_, _, _)
GetFrom(intfs, id, k) ==
    IF k > Len(intfs) THEN NotFound
    ELSE
      LET intf == intfs[k] IN
      IF intf.interface_id = id THEN TopRef(k)
      ELSE IF "." \in Range(id)
      THEN LET vlan == Split(id, ".") IN
           IF intf.interface_id = vlan[1] /\ has_vlan(intf)
           THEN LET v == get_vlan(intf, Last(vlan))
                IN  IF v = 0 THEN NotFound ELSE VlanRef(k, v)
           ELSE GetFrom(intfs, id, k + 1)
      ELSE IF has_interfaces(intf)
              /\ \E n \in DOMAIN intf.interfaces :
                    /\ IsInline(intf.interfaces[n])
                    /\ \/ id = intf.interfaces[n].nicid
                       \/ id \in Range(Split(intf.interfaces[n].nicid, "-"))
      THEN TopRef(k)
      ELSE GetFrom(intfs, id, k + 1)

\* InterfaceModifier.get(interface_id); NotFound stands for InterfaceNotFound
Get(intfs, interface_id) == GetFrom(intfs, Str(interface_id), 1)

\* interface.interfaces of the object a reference names
RefSubs(intfs, ref) ==
    IF ref.kind = "top" THEN intfs[ref.i].interfaces
    ELSE intfs[ref.i].vlanInterfaces[ref.v].interfaces

\* interface.vlan_interface of the object a reference names
RefVlans(intfs, ref) ==
    IF ref.kind = "top" THEN intfs[ref.i].vlanInterfaces ELSE <<>>

\* interface.interface_id of the object a reference names
RefId(intfs, ref) ==
    IF ref.kind = "top" THEN intfs[ref.i].interface_id
    ELSE intfs[ref.i].vlanInterfaces[ref.v].interface_id

\* concatenation of a sequence of sequences
RECURSIVE Flatten(_)
Flatten(seqs) == IF Len(seqs) = 0 THEN <<>> ELSE Head(seqs) \o Flatten(Tail(seqs))

\* AllInterfaces.get(address=address): the sub-interfaces with the address,
\* those nested in VLANs first (VlanCollection.get), then the interface's own
AllInterfaces_get(intfs, ref, address) ==
    LET nested == Flatten([v \in DOMAIN RefVlans(intfs, ref) |->
                              RefVlans(intfs, ref)[v].interfaces])
    IN  SelectSeq(nested \o RefSubs(intfs, ref),
                  LAMBDA s : AddressOf(s) = address)

\* Interface.sub_interfaces(): every sub-interface, nested in a VLAN or not
sub_interfaces(intf) ==
    Flatten([v \in DOMAIN intf.vlanInterfaces |-> intf.vlanInterfaces[v].interfaces])
        \o intf.interfaces

\* every sub-interface of the engine
AllSubs(intfs) == Flatten([i \in DOMAIN intfs |-> sub_interfaces(intfs[i])])

\* where the sub-interfaces are: interface i, its VLAN v (0: none), place n
SubPaths(intfs) ==
    UNION {
        {[i |-> i, v |-> 0, n |-> n] : n \in DOMAIN intfs[i].interfaces}
        \cup UNION {
            {[i |-> i, v |-> v, n |-> n] :
                n \in DOMAIN intfs[i].vlanInterfaces[v].interfaces}
            : v \in DOMAIN intfs[i].vlanInterfaces}
        : i \in DOMAIN intfs}

SubAt(intfs, p) ==
    IF p.v = 0 THEN intfs[p.i].interfaces[p.n]
    ELSE intfs[p.i].vlanInterfaces[p.v].interfaces[p.n]

\* InterfaceModifier.find_mgmt_interface(mgmt) from interface k on
RECURSIVE FindMgmtFrom(_, _, _)
FindMgmtFrom(intfs, mgmt, k) ==
    IF k > Len(intfs) THEN None
    ELSE
      LET intf == intfs[k]
          vhits == {v \in DOMAIN intf.vlanInterfaces :
                      \E n \in DOMAIN intf.vlanInterfaces[v].interfaces :
                          Truthy(intf.vlanInterfaces[v].interfaces[n], mgmt)}
      IN  IF vhits # {}
          THEN intf.vlanInterfaces[CHOOSE v \in vhits : \A w \in vhits : v <= w].interface_id
          ELSE IF \E n \in DOMAIN intf.interfaces : Truthy(intf.interfaces[n], mgmt)
          THEN intf.interface_id
          ELSE FindMgmtFrom(intfs, mgmt, k + 1)

find_mgmt_interface(intfs, mgmt) == FindMgmtFrom(intfs, mgmt, 1)

\* Apply F to every sub-interface of the engine, in place
MapSubs(intfs, F(_)) ==
    [i \in DOMAIN intfs |->
        [intfs[i] EXCEPT
            !.interfaces = Map(@, F),
            !.vlanInterfaces =
                [v \in DOMAIN @ |-> [@[v] EXCEPT !.interfaces = Map(@, F)]]]]

\* Apply F to the sub-interfaces directly under the object a reference names
MapRefSubs(intfs, ref, F(_)) ==
    IF ref.kind = "top"
    THEN [intfs EXCEPT ![ref.i].interfaces = Map(@, F)]
    ELSE [intfs EXCEPT ![ref.i].vlanInterfaces[ref.v].interfaces = Map(@, F)]

-----------------------------------------------------------------------------
(* InterfaceModifier.set_unset and InterfaceModifier.set_auth_request, as  *)
(* functions from engine data to an outcome and the engine data they leave *)

\* sub_interface[key] = value
SetKey(s, key, value) ==
    [k \in DOMAIN s \cup {key} |-> IF k = key THEN value ELSE s[k]]

Ok(intfs) == [status |-> "ok", intfs |-> intfs]
Raise(exception, intfs) == [status |-> exception, intfs |-> intfs]

\* set_unset_sub that leaves the other sub-interfaces as they are
set_unset_sub_keep(s, interface_id, attribute, address, target_network) ==
    IF IsInline(s) \/ ~Has(s, attribute) THEN s
    ELSE IF s.nicid = Str(interface_id)
         THEN IF address # NoneA
              THEN SetKey(s, attribute, NetworkOf(s) = target_network)
              ELSE SetKey(s, attribute, TRUE)
         ELSE s

\* the body of the loop of set_unset for one sub-interface
set_unset_sub(s, interface_id, attribute, address, target_network) ==
    IF IsInline(s) \/ ~Has(s, attribute) THEN s
    ELSE IF s.nicid = Str(interface_id)
         THEN IF address # NoneA
              THEN SetKey(s, attribute, NetworkOf(s) = target_network)
              ELSE SetKey(s, attribute, TRUE)
         ELSE SetKey(s, attribute, FALSE)

\* set_unset that does not check that the address resolved to a network
set_unset_unchecked(intfs, interface_id, attribute, address) ==
    LET interface == IF interface_id # None THEN Get(intfs, interface_id) ELSE NotFound
    IN  IF interface_id # None /\ interface = NotFound
        THEN Raise("InterfaceNotFound", intfs)
        ELSE IF address # NoneA /\ interface_id = None
        THEN Raise("AttributeError", intfs)
        ELSE
          LET found == IF address # NoneA
                       THEN AllInterfaces_get(intfs, interface, address)
                       ELSE <<>>
              target_network == IF Len(found) > 0 THEN NetworkOf(found[1]) ELSE NoneA
          IN  Ok(MapSubs(intfs, LAMBDA s :
                    set_unset_sub(s, interface_id, attribute, address,
                                  target_network)))

\* InterfaceModifier.set_unset(interface_id, attribute, address=None)
set_unset(intfs, interface_id, attribute, address) ==
    LET interface == IF interface_id # None THEN Get(intfs, interface_id) ELSE NotFound
    IN  IF interface_id # None /\ interface = NotFound
        THEN Raise("InterfaceNotFound", intfs)
        ELSE IF address # NoneA /\ interface_id = None
        THEN Raise("AttributeError", intfs)
        ELSE
          LET found == IF address # NoneA
                       THEN AllInterfaces_get(intfs, interface, address)
                       ELSE <<>>
              target_network == IF Len(found) > 0 THEN NetworkOf(found[1]) ELSE NoneA
          IN  IF address # NoneA /\ target_network = NoneA
              THEN Raise("InterfaceNotFound", intfs)
              ELSE Ok(MapSubs(intfs, LAMBDA s :
                        set_unset_sub(s, interface_id, attribute, address,
                                      target_network)))

\* set_auth_request that does not clear the current auth_request interface
set_auth_request_keep(intfs, etype, interface_id, address) ==
    IF \E w \in {"master", "layer2", "ips"} : TypeContains(etype, w)
    THEN Ok(intfs)
    ELSE
      LET interface == Get(intfs, interface_id) IN
      IF interface = NotFound THEN Raise("InterfaceNotFound", intfs)
      ELSE IF TypeContains(etype, "cluster")
              /\ ~\E n \in DOMAIN RefSubs(intfs, interface) :
                     IsCVI(RefSubs(intfs, interface)[n])
      THEN Raise("InterfaceNotFound", intfs)
      ELSE
        LET current_interface ==
                Get(intfs, find_mgmt_interface(intfs, "auth_request"))
        IN
        IF current_interface = NotFound THEN Raise("InterfaceNotFound", intfs)
        ELSE
          LET cleared == intfs
              sub_if == RefSubs(cleared, interface)
              has_cvi == \E n \in DOMAIN sub_if : IsCVI(sub_if[n])
          IN  Ok(MapRefSubs(cleared, interface, LAMBDA s :
                    IF /\ IF has_cvi THEN IsCVI(s) ELSE Has(s, "auth_request")
                       /\ address # NoneA => AddressOf(s) = address
                    THEN SetKey(s, "auth_request", TRUE)
                    ELSE s))

\* set_auth_request that accepts a cluster interface without a CVI
set_auth_request_any(intfs, etype, interface_id, address) ==
    IF \E w \in {"master", "layer2", "ips"} : TypeContains(etype, w)
    THEN Ok(intfs)
    ELSE
      LET interface == Get(intfs, interface_id) IN
      IF interface = NotFound THEN Raise("InterfaceNotFound", intfs)
      ELSE IF FALSE
              /\ ~\E n \in DOMAIN RefSubs(intfs, interface) :
                     IsCVI(RefSubs(intfs, interface)[n])
      THEN Raise("InterfaceNotFound", intfs)
      ELSE
        LET current_interface ==
                Get(intfs, find_mgmt_interface(intfs, "auth_request"))
        IN
        IF current_interface = NotFound THEN Raise("InterfaceNotFound", intfs)
        ELSE
          LET cleared == MapRefSubs(intfs, current_interface, LAMBDA s :
                            IF Truthy(s, "auth_request")
                            THEN SetKey(s, "auth_request", FALSE) ELSE s)
              sub_if == RefSubs(cleared, interface)
              has_cvi == \E n \in DOMAIN sub_if : IsCVI(sub_if[n])
          IN  Ok(MapRefSubs(cleared, interface, LAMBDA s :
                    IF /\ IF has_cvi THEN IsCVI(s) ELSE Has(s, "auth_request")
                       /\ address # NoneA => AddressOf(s) = address
                    THEN SetKey(s, "auth_request", TRUE)
                    ELSE s))

\* InterfaceModifier.set_auth_request(interface_id, address=None)
set_auth_request(intfs, etype, interface_id, address) ==
    IF \E w \in {"master", "layer2", "ips"} : TypeContains(etype, w)
    THEN Ok(intfs)
    ELSE
      LET interface == Get(intfs, interface_id) IN
      IF interface = NotFound THEN Raise("InterfaceNotFound", intfs)
      ELSE IF TypeContains(etype, "cluster")
              /\ ~\E n \in DOMAIN RefSubs(intfs, interface) :
                     IsCVI(RefSubs(intfs, interface)[n])
      THEN Raise("InterfaceNotFound", intfs)
      ELSE
        LET current_interface ==
                Get(intfs, find_mgmt_interface(intfs, "auth_request"))
        IN
        IF current_interface = NotFound THEN Raise("InterfaceNotFound", intfs)
        ELSE
          LET cleared == MapRefSubs(intfs, current_interface, LAMBDA s :
                            IF Truthy(s, "auth_request")
                            THEN SetKey(s, "auth_request", FALSE) ELSE s)
              sub_if == RefSubs(cleared, interface)
              has_cvi == \E n \in DOMAIN sub_if : IsCVI(sub_if[n])
          IN  Ok(MapRefSubs(cleared, interface, LAMBDA s :
                    IF /\ IF has_cvi THEN IsCVI(s) ELSE Has(s, "auth_request")
                       /\ address # NoneA => AddressOf(s) = address
                    THEN SetKey(s, "auth_request", TRUE)
                    ELSE s))

-----------------------------------------------------------------------------
(* Engines the interface options are exercised on *)

\* Each flag is held by at most this many sub-interfaces in the data loaded
\* from the server
MaxHolders == 2

ID(n) == <<n>>

\* single firewall: one address; two addresses in one network and a third in
\* another; addresses under a VLAN only
SingleShape ==
    << PhysicalInterface(ID("1"), <<SingleNodeInterface(ID("1"), "a1", "n1")>>, <<>>),
       PhysicalInterface(ID("2"), <<SingleNodeInterface(ID("2"), "a2", "n2"),
                                    SingleNodeInterface(ID("2"), "a3", "n2"),
                                    SingleNodeInterface(ID("2"), "a5", "n5")>>, <<>>),
       PhysicalInterface(ID("3"), <<>>,
           <<PhysicalVlanInterface_create(ID("3"), ID("5"), NoneA,
                <<SingleNodeInterface(Dot(ID("3"), ID("5")), "a4", "n4")>>, NoneA)>>) >>

\* interfaces 1 and 2, one address each
PairShape ==
    << PhysicalInterface(ID("1"), <<SingleNodeInterface(ID("1"), "a1", "n1")>>, <<>>),
       PhysicalInterface(ID("2"), <<SingleNodeInterface(ID("2"), "a2", "n2")>>, <<>>) >>

\* firewall cluster: CVI with two nodes; CVI only; two nodes only
ClusterShape ==
    << PhysicalInterface(ID("1"), <<ClusterVirtualInterface(ID("1"), "a1", "n1"),
                                    NodeInterface(ID("1"), "a2", "n1", 1),
                                    NodeInterface(ID("1"), "a3", "n1", 2)>>, <<>>),
       PhysicalInterface(ID("2"), <<ClusterVirtualInterface(ID("2"), "a4", "n2")>>, <<>>),
       PhysicalInterface(ID("3"), <<NodeInterface(ID("3"), "a5", "n3", 1),
                                    NodeInterface(ID("3"), "a6", "n3", 2)>>, <<>>) >>

\* layer 2 / IPS engine: node interfaces for management, an inline pair
Layer2Shape ==
    << PhysicalInterface(ID("1"), <<NodeInterface(ID("1"), "a1", "n1", 1),
                                    NodeInterface(ID("1"), "a2", "n1", 2)>>, <<>>),
       PhysicalInterface(ID("2"), <<InlineInterface(<<"2", "-", "3">>)>>, <<>>) >>

EngineShapes ==
    { [type |-> "single_fw", intfs |-> SingleShape] }
    \cup { [type |-> t, intfs |-> PairShape] : t \in {"single_fw", "virtual_fw"} }
    \cup { [type |-> "fw_cluster", intfs |-> ClusterShape] }
    \cup { [type |-> t, intfs |-> Layer2Shape] : t \in {"layer2_cluster", "single_ips"} }

Addresses(intfs) ==
    {AddressOf(AllSubs(intfs)[n]) : n \in DOMAIN AllSubs(intfs)} \ {NoneA}

\* the engine data with primary_mgt and outgoing held by the sub-interfaces
\* whose addresses are in mgt, auth_request and backup_mgt by those in aux
WithFlags(intfs, mgt, aux) ==
    MapSubs(intfs, LAMBDA s :
        [k \in DOMAIN s |->
            IF k \in {"primary_mgt", "outgoing"} THEN AddressOf(s) \in mgt
            ELSE IF k \in {"auth_request", "backup_mgt"} THEN AddressOf(s) \in aux
            ELSE s[k]])

Attributes == {"primary_mgt", "outgoing", "auth_request", "backup_mgt"}

\* arguments the operations are called with
InterfaceIds == {None, ID("1"), ID("2"), ID("3"), Dot(ID("3"), ID("5")),
                 Dot(ID("3"), ID("7")), ID("9")}
AddressArgs == {NoneA, "a2", "a4", "a9"}

NoCall == [op |-> "none"]
Idle == [status |-> "idle", ret |-> NoneA]
NoPrev == [call |-> NoCall, status |-> "idle"]
NoBuilder == [state |-> "none"]

\* no TLS server credential has been created
NoCredentials == <<>>

\* the number of methods called on one builder before it is dispatched
MaxOps == 2

InitOptions ==
    /\ \E shape \in EngineShapes :
       \E mgt \in SUBSET Addresses(shape.intfs) :
       \E aux \in SUBSET Addresses(shape.intfs) :
          /\ Cardinality(mgt) <= MaxHolders
          /\ Cardinality(aux) <= MaxHolders
          /\ engine_type = shape.type
          /\ interfaces = WithFlags(shape.intfs, mgt, aux)
    /\ routing = {}
    /\ requests = <<>>
    /\ cache_valid = TRUE
    /\ pre = interfaces
    /\ call = NoCall
    /\ prev = NoPrev
    /\ outcome = Idle
    /\ builder = NoBuilder
    /\ credentials = NoCredentials

-----------------------------------------------------------------------------
(* InterfaceOptions: each action is one call on a freshly loaded           *)
(* InterfaceOptions(engine) / InterfaceModifier.byEngine(engine)           *)

\* run F on the data r left unless r raised
Then(r, F(_)) == IF r.status = "ok" THEN F(r.intfs) ELSE r

OptionsCall(op, interface_id, attribute, address, auth_request) ==
    [op |-> op, interface_id |-> interface_id, attribute |-> attribute,
     address |-> address, auth_request |-> auth_request]

\* dispatch(self, self.interface, self._engine) after the local changes r:
\* one update of the engine with the interfaces as its body, and the cache
\* reset once it succeeded
Dispatch(r, server_ok) ==
    IF r.status # "ok"
    THEN /\ requests' = <<>>
         /\ outcome' = [status |-> r.status, ret |-> NoneA]
         /\ cache_valid' = cache_valid
    ELSE /\ requests' = <<[method |-> "update", href |-> "engine", json |-> r.intfs]>>
         /\ outcome' = [status |-> IF server_ok THEN "ok" ELSE "EngineCommandFailed",
                        ret |-> NoneA]
         /\ cache_valid' = IF server_ok THEN FALSE ELSE cache_valid

\* A call on the InterfaceModifier: r is what it did to the loaded collection
Modify(c, r) ==
    /\ interfaces' = r.intfs
    /\ outcome' = [status |-> r.status, ret |-> NoneA]
    /\ pre' = interfaces
    /\ call' = c
    /\ UNCHANGED <<engine_type, routing, requests, cache_valid, prev, builder, credentials>>

\* A call on InterfaceOptions: the local changes r, then dispatch
ModifyAndDispatch(c, r, server_ok) ==
    /\ interfaces' = r.intfs
    /\ Dispatch(r, server_ok)
    /\ pre' = interfaces
    /\ call' = c
    /\ UNCHANGED <<engine_type, routing, prev, builder, credentials>>

\* InterfaceModifier.set_unset called on the loaded collection
SetUnset(interface_id, attribute, address) ==
    /\ outcome.status = "idle"
    /\ Modify(OptionsCall("set_unset", interface_id, attribute, address, None),
              set_unset(interfaces, interface_id, attribute, address))

\* InterfaceModifier.set_auth_request called on the loaded collection
SetAuthRequest(interface_id, address) ==
    /\ outcome.status = "idle"
    /\ Modify(OptionsCall("set_auth_request", interface_id, "auth_request",
                          address, None),
              set_auth_request(interfaces, engine_type, interface_id, address))

\* set_primary_mgt that moves primary_mgt only
set_primary_mgt_only(intfs, etype, interface_id, auth_request, address) ==
    LET r1 == IF etype = "virtual_fw" THEN Ok(intfs)
              ELSE set_unset(intfs, interface_id, "primary_mgt", address)
    IN  Then(r1, LAMBDA d :
            IF auth_request # None
            THEN set_auth_request(d, etype, auth_request, NoneA)
            ELSE set_auth_request(d, etype, interface_id, address))

\* InterfaceOptions.set_primary_mgt(interface_id, auth_request=None, address=None)
set_primary_mgt(intfs, etype, interface_id, auth_request, address) ==
    LET r1 == IF etype = "virtual_fw" THEN Ok(intfs)
              ELSE set_unset(intfs, interface_id, "primary_mgt", address)
        r2 == Then(r1, LAMBDA d : set_unset(d, interface_id, "outgoing", address))
    IN  Then(r2, LAMBDA d :
            IF auth_request # None
            THEN set_auth_request(d, etype, auth_request, NoneA)
            ELSE set_auth_request(d, etype, interface_id, address))

SetPrimaryMgt(interface_id, auth_request, address, server_ok) ==
    /\ outcome.status = "idle"
    /\ ModifyAndDispatch(
          OptionsCall("set_primary_mgt", interface_id, "primary_mgt", address,
                      auth_request),
          set_primary_mgt(interfaces, engine_type, interface_id, auth_request,
                          address),
          server_ok)

\* InterfaceOptions.set_backup_mgt(interface_id)
SetBackupMgt(interface_id, server_ok) ==
    /\ outcome.status = "idle"
    /\ ModifyAndDispatch(
          OptionsCall("set_backup_mgt", interface_id, "backup_mgt", NoneA, None),
          set_unset(interfaces, interface_id, "backup_mgt", NoneA),
          server_ok)

\* InterfaceOptions.set_outgoing(interface_id)
SetOutgoing(interface_id, server_ok) ==
    /\ outcome.status = "idle"
    /\ ModifyAndDispatch(
          OptionsCall("set_outgoing", interface_id, "outgoing", NoneA, None),
          set_unset(interfaces, interface_id, "outgoing", NoneA),
          server_ok)

NextOptions ==
    \/ \E i \in InterfaceIds, a \in Attributes, addr \in AddressArgs :
          SetUnset(i, a, addr)
    \/ \E i \in InterfaceIds, addr \in AddressArgs : SetAuthRequest(i, addr)
    \/ \E i \in InterfaceIds, ar \in {None, ID("2")},
          addr \in AddressArgs, ok \in BOOLEAN :
          SetPrimaryMgt(i, ar, addr, ok)
    \/ \E i \in InterfaceIds, ok \in BOOLEAN : SetBackupMgt(i, ok)
    \/ \E i \in InterfaceIds, ok \in BOOLEAN : SetOutgoing(i, ok)

SpecOptions == InitOptions /\ [][NextOptions]_vars

-----------------------------------------------------------------------------
(* Claims about InterfaceModifier.set_unset *)

\* Interface.get_boolean(name)
get_boolean(intf, name) ==
    \E n \in DOMAIN sub_interfaces(intf) : Truthy(sub_interfaces(intf)[n], name)

\* the sub-interfaces of the engine that hold a flag, by position
Holders(intfs, attribute) ==
    {n \in DOMAIN AllSubs(intfs) : Truthy(AllSubs(intfs)[n], attribute)}

\* the sub-interfaces set_unset can give the attribute to: those of the nic id
\* that carry it
Carriers(intfs, interface_id, attribute) ==
    {n \in DOMAIN AllSubs(intfs) :
        LET s == AllSubs(intfs)[n]
        IN  ~IsInline(s) /\ Has(s, attribute) /\ s.nicid = Str(interface_id)}

\* the sub-interfaces of the object a reference names, nested in VLANs or not
RefAllSubs(intfs, ref) ==
    IF ref.kind = "top" THEN sub_interfaces(intfs[ref.i]) ELSE RefSubs(intfs, ref)

ReturnedFrom(op) == call.op = op /\ outcome.status = "ok"

\* C1 as stated, for a target that has a sub-interface to set the attribute
\* on: after set_unset returned, exactly one sub-interface of the engine holds
\* the attribute
C1_ExactlyOneHolder ==
    (/\ ReturnedFrom("set_unset")
     /\ Carriers(pre, call.interface_id, call.attribute) # {})
    => Cardinality(Holders(interfaces, call.attribute)) = 1

\* C1 (amended): after set_unset returned, a sub-interface holds the attribute
\* if and only if it carries it, its nic id is the interface id and, when an
\* address was given, its network is the network of the target's sub-interface
\* with that address; all other keys of all sub-interfaces are as before.  So all
\* holders are on the target, and they may be several.
C1_HoldersAreOnTarget ==
    ReturnedFrom("set_unset") =>
        /\ Len(AllSubs(interfaces)) = Len(AllSubs(pre))
        /\ \A n \in DOMAIN AllSubs(interfaces) :
             LET s  == AllSubs(interfaces)[n]
                 s0 == AllSubs(pre)[n]
             IN  /\ DOMAIN s = DOMAIN s0
                 /\ \A k \in DOMAIN s : k # call.attribute => s[k] = s0[k]
                 /\ Truthy(s, call.attribute) <=>
                      /\ n \in Carriers(pre, call.interface_id, call.attribute)
                      /\ call.address # NoneA =>
                           LET found == AllInterfaces_get(
                                   pre, Get(pre, call.interface_id), call.address)
                           IN  NetworkOf(found[1]) = NetworkOf(s0)

\* C1 witness: set_unset returned, the attribute was held on two interfaces
\* before the call and is held by two sub-interfaces of the target after it
C1_Witness ==
    /\ ReturnedFrom("set_unset")
    /\ Cardinality({AllSubs(pre)[n].nicid : n \in Holders(pre, call.attribute)}) = 2
    /\ Cardinality(Holders(interfaces, call.attribute)) >= 2

\* C2: set_unset with an address that no sub-interface of the target
\* interface has raises InterfaceNotFound and changes nothing
C2_UnknownAddressRaises ==
    (/\ call.op = "set_unset"
     /\ call.interface_id # None
     /\ call.address # NoneA
     /\ Get(pre, call.interface_id) # NotFound
     /\ \A n \in DOMAIN RefAllSubs(pre, Get(pre, call.interface_id)) :
           AddressOf(RefAllSubs(pre, Get(pre, call.interface_id))[n]) # call.address)
    => /\ outcome.status = "InterfaceNotFound"
       /\ interfaces = pre

\* C2 witness: such a call on an engine where the attribute was held, and by
\* sub-interfaces the call would have cleared
C2_Witness ==
    /\ call.op = "set_unset"
    /\ call.interface_id = ID("1")
    /\ call.address = "a9"
    /\ outcome.status = "InterfaceNotFound"
    /\ \E n \in Holders(pre, call.attribute) : AllSubs(pre)[n].nicid # ID("1")

\* C3 as stated: set_unset on an existing interface that has no sub-interface
\* that can carry the attribute raises InterfaceNotFound
C3_UnsupportedTargetRaises ==
    (/\ call.op = "set_unset"
     /\ call.interface_id # None
     /\ call.address = NoneA
     /\ Get(pre, call.interface_id) # NotFound
     /\ \A n \in DOMAIN RefAllSubs(pre, Get(pre, call.interface_id)) :
           ~Has(RefAllSubs(pre, Get(pre, call.interface_id))[n], call.attribute))
    => outcome.status = "InterfaceNotFound"

-----------------------------------------------------------------------------
(* Claims about InterfaceModifier.set_auth_request *)

\* the sub-interface is directly under the object the reference names
InRef(p, ref) == ref.kind # "none" /\ p.i = ref.i /\ p.v = ref.v

\* engine types set_auth_request does nothing on
NoAuthType(type) == \E w \in {"master", "layer2", "ips"} : TypeContains(type, w)

AuthTarget == Get(pre, call.interface_id)
AuthCurrent == Get(pre, find_mgmt_interface(pre, "auth_request"))

\* the sub-interfaces of the target that set_auth_request selects: its CVIs if
\* it has one, else those that carry auth_request; with the address if given
AuthSelected(p) ==
    /\ InRef(p, AuthTarget)
    /\ IF \E q \in SubPaths(pre) : InRef(q, AuthTarget) /\ IsCVI(SubAt(pre, q))
       THEN IsCVI(SubAt(pre, p))
       ELSE Has(SubAt(pre, p), "auth_request")
    /\ call.address # NoneA => AddressOf(SubAt(pre, p)) = call.address

AuthHolders(intfs) == {p \in SubPaths(intfs) : Truthy(SubAt(intfs, p), "auth_request")}

C5_ClusterNeedsCVI ==
    (/\ call.op = "set_auth_request"
     /\ TypeContains(engine_type, "cluster")
     /\ AuthTarget # NotFound
     /\ \A p \in SubPaths(pre) : InRef(p, AuthTarget) => ~IsCVI(SubAt(pre, p)))
    => /\ outcome.status = "InterfaceNotFound"
       /\ interfaces = pre

\* C5 (amended): the same on an engine whose type contains 'cluster' and none
\* of master, layer2 and ips, where set_auth_request does nothing
C5_FwClusterNeedsCVI ==
    (/\ call.op = "set_auth_request"
     /\ TypeContains(engine_type, "cluster")
     /\ ~NoAuthType(engine_type)
     /\ AuthTarget # NotFound
     /\ \A p \in SubPaths(pre) : InRef(p, AuthTarget) => ~IsCVI(SubAt(pre, p)))
    => /\ outcome.status = "InterfaceNotFound"
       /\ interfaces = pre

\* C5 witness: set_auth_request on the node-only interface of a firewall
\* cluster that has an auth_request interface
C5_Witness ==
    /\ call.op = "set_auth_request"
    /\ engine_type = "fw_cluster"
    /\ call.interface_id = ID("3")
    /\ AuthHolders(pre) # {}
    /\ outcome.status = "InterfaceNotFound"

-----------------------------------------------------------------------------
(* Claims about InterfaceOptions *)

\* the top level interface a call is about
TargetTop == Get(pre, call.interface_id).i

\* the request dispatch sent: one update of the engine, with the data as left
OneCommit ==
    /\ Len(requests) = 1
    /\ requests[1].method = "update"
    /\ requests[1].json = interfaces

MovedFlags(type) ==
    IF type = "virtual_fw" THEN {"outgoing"} ELSE {"primary_mgt", "outgoing"}

C7_NoneUnsetsOption ==
    (/\ call.op \in {"set_primary_mgt", "set_backup_mgt", "set_outgoing"}
     /\ call.interface_id = None
     /\ call.address = NoneA
     /\ call.auth_request = None)
    => /\ outcome.status \in {"ok", "EngineCommandFailed"}
       /\ Holders(interfaces, call.attribute) = {}
       /\ Len(requests) = 1

-----------------------------------------------------------------------------
(* The mutation operations of Interface and PhysicalInterface, as functions *)
(* from engine data and the place k of the interface they are called on to  *)
(* a result: the status, the data as staged, whether update() is called,    *)
(* the return value, and which routing entries are looked at after it.      *)

Result(status, intfs, commit, ret, nicid, purge) ==
    [status |-> status, intfs |-> intfs, json |-> intfs, commit |-> commit,
     ret |-> ret, nicid |-> nicid, purge |-> purge]

\* the operation raised before it staged anything
Abort(exception, intfs) == Result(exception, intfs, FALSE, NoneA, None, "no")

\* interface.zone_ref = zone on the object a reference names
SetRefZone(intfs, ref, zone) ==
    IF ref.kind = "top"
    THEN [intfs EXCEPT ![ref.i].zone_ref = zone_helper(zone)]
    ELSE [intfs EXCEPT ![ref.i].vlanInterfaces[ref.v].zone_ref = zone_helper(zone)]

\* the largest element of a non-empty set of numbers
Max(S) == CHOOSE x \in S : \A y \in S : y <= x

\* change_single_interface without the comparison of addresses: every
\* sub-interface is written and the interface is always saved
change_single_interface_always(intfs, k, address, network_value, zone_ref, vid) ==
    LET self == intfs[k] IN
    IF has_vlan(self) /\ vid = None
    THEN Abort("ModificationAborted", intfs)
    ELSE IF vid # None /\ get_vlan(self, vid) = 0
    THEN Abort("InterfaceNotFound", intfs)
    ELSE
      LET itf == IF vid # None THEN VlanRef(k, get_vlan(self, vid)) ELSE TopRef(k)
          nicid == RefId(intfs, itf)
          zone == zone_helper(zone_ref)
          zone_change == zone_ref # NoneA /\ self.zone_ref # zone
          staged1 == IF zone_change THEN SetRefZone(intfs, itf, zone) ELSE intfs
          subs == RefSubs(staged1, itf)
          differ == DOMAIN subs
          original_network ==
              IF differ = {} THEN NoneA ELSE NetworkOf(subs[Max(differ)])
          staged2 == MapRefSubs(staged1, itf, LAMBDA s :
                        IF TRUE
                        THEN SetKey(SetKey(s, "address", address),
                                    "network_value", network_value)
                        ELSE s)
          change_made == TRUE
      IN  Result("ok", staged2, change_made, change_made, nicid,
                 IF original_network # NoneA /\ original_network # network_value
                 THEN "invalid" ELSE "no")

\* Interface.change_single_interface(address, network_value, zone_ref, vlan_id)
change_single_interface(intfs, k, address, network_value, zone_ref, vid) ==
    LET self == intfs[k] IN
    IF has_vlan(self) /\ vid = None
    THEN Abort("ModificationAborted", intfs)
    ELSE IF vid # None /\ get_vlan(self, vid) = 0
    THEN Abort("InterfaceNotFound", intfs)
    ELSE
      LET itf == IF vid # None THEN VlanRef(k, get_vlan(self, vid)) ELSE TopRef(k)
          nicid == RefId(intfs, itf)
          zone == zone_helper(zone_ref)
          zone_change == zone_ref # NoneA /\ self.zone_ref # zone
          staged1 == IF zone_change THEN SetRefZone(intfs, itf, zone) ELSE intfs
          subs == RefSubs(staged1, itf)
          differ == {n \in DOMAIN subs : AddressOf(subs[n]) # address}
          original_network ==
              IF differ = {} THEN NoneA ELSE NetworkOf(subs[Max(differ)])
          staged2 == MapRefSubs(staged1, itf, LAMBDA s :
                        IF AddressOf(s) # address
                        THEN SetKey(SetKey(s, "address", address),
                                    "network_value", network_value)
                        ELSE s)
          change_made == zone_change \/ differ # {}
      IN  Result("ok", staged2, change_made, change_made, nicid,
                 IF original_network # NoneA /\ original_network # network_value
                 THEN "invalid" ELSE "no")

\* the loop over nodes in change_cluster_interface for one node interface
RECURSIVE apply_nodes(_, _)
apply_nodes(s, nodes) ==
    IF Len(nodes) = 0 THEN s
    ELSE LET node == Head(nodes)
             s1 == IF node.nodeid = s.nodeid
                      /\ (AddressOf(s) # node.address
                          \/ NetworkOf(s) # node.network_value)
                   THEN SetKey(SetKey(s, "address", node.address),
                               "network_value", node.network_value)
                   ELSE s
         IN  apply_nodes(s1, Tail(nodes))

\* the body of the loop over the sub-interfaces in change_cluster_interface
change_cluster_sub(s, cluster_virtual, network_value, nodes) ==
    IF cluster_virtual # NoneA /\ IsCVI(s)
    THEN LET s1 == IF cluster_virtual # AddressOf(s)
                   THEN SetKey(s, "address", cluster_virtual) ELSE s
         IN  IF network_value # NoneA /\ network_value # NetworkOf(s1)
             THEN SetKey(s1, "network_value", network_value) ELSE s1
    ELSE IF Len(nodes) > 0 /\ IsNode(s)
    THEN apply_nodes(s, nodes)
    ELSE s

\* Interface.change_cluster_interface(cluster_virtual, network_value, nodes,
\*                                    macaddress, vlan_id, zone_ref, comment)
change_cluster_interface(intfs, k, cluster_virtual, network_value, nodes, macaddress, vid, zone_ref, comment) ==
    LET self == intfs[k] IN
    IF has_vlan(self) /\ vid = None
    THEN Abort("ModificationAborted", intfs)
    ELSE IF vid # None /\ get_vlan(self, vid) = 0
    THEN Abort("InterfaceNotFound", intfs)
    ELSE
      LET itf == IF vid # None THEN VlanRef(k, get_vlan(self, vid)) ELSE TopRef(k)
          nicid == RefId(intfs, itf)
          mac_change == macaddress # NoneA /\ self.macaddress # macaddress
          staged1 == IF mac_change
                     THEN [intfs EXCEPT ![k].macaddress = macaddress] ELSE intfs
          comment_change == comment # NoneA /\ comment # self.comment
          staged2 == IF comment_change
                     THEN [staged1 EXCEPT ![k].comment = comment] ELSE staged1
          zone == zone_helper(zone_ref)
          zone_change == zone_ref # NoneA /\ self.zone_ref # zone
          staged3 == IF zone_change THEN SetRefZone(staged2, itf, zone) ELSE staged2
          subs == RefSubs(staged3, itf)
          looped == Len(subs) > 0 /\ (Len(nodes) > 0 \/ cluster_virtual # NoneA)
          original_network == IF looped THEN NetworkOf(subs[Len(subs)]) ELSE NoneA
          staged4 == IF looped
                     THEN MapRefSubs(staged3, itf, LAMBDA s :
                            change_cluster_sub(s, cluster_virtual, network_value, nodes))
                     ELSE staged3
          change_made == \/ mac_change \/ comment_change \/ zone_change
                         \/ staged4 # staged3
          top == staged4[k].interfaces
      IN  Result("ok", staged4, change_made, change_made, nicid,
                 IF original_network = NoneA THEN "no"
                 ELSE IF network_value = NoneA /\ Len(top) = 0 THEN "StopIteration"
                 ELSE IF (IF network_value # NoneA THEN network_value
                          ELSE NetworkOf(top[1])) # original_network
                 THEN "invalid" ELSE "no")

\* SubInterface.change_interface_id(interface_id) of a sub-interface in a VLAN
sub_change_interface_id(s, interface_id) ==
    SetKey(s, "nicid", Dot(Str(interface_id), Last(Split(s.nicid, "."))))

\* InlineInterface.change_interface_id(newid): both halves of the pair, and
\* the VLAN tags of the nic id kept
inline_change_interface_id(s, newid) ==
    LET new == Split(Str(newid), "-")
        old == Split(s.nicid, "-")
    IN  IF "." \in Range(s.nicid)
        THEN SetKey(s, "nicid",
                    Dot(new[1], Last(Split(old[1], "."))) \o <<"-">>
                    \o Dot(Last(new), Last(Split(Last(old), "."))))
        ELSE SetKey(s, "nicid", Str(newid))

\* change_interface_id that leaves the VLANs as they are
change_interface_id_top(intfs, k, interface_id) ==
    Result("ok",
           [intfs EXCEPT
              ![k].interfaces = Map(@, LAMBDA s :
                  IF IsInline(s) THEN inline_change_interface_id(s, interface_id)
                  ELSE SetKey(s, "nicid", Split(Str(interface_id), "-")[1])),
              ![k].interface_id = Split(Str(interface_id), "-")[1]],
           TRUE, NoneA, None, "no")

\* Interface.change_interface_id(interface_id)
change_interface_id(intfs, k, interface_id) ==
    LET if1 == Split(Str(interface_id), "-")[1]
        staged ==
          [intfs EXCEPT
            ![k].vlanInterfaces =
                [v \in DOMAIN @ |->
                    [@[v] EXCEPT
                        !.interface_id = Dot(if1, Last(Split(@, "."))),
                        !.interfaces = Map(@, LAMBDA s :
                            IF IsInline(s)
                            THEN inline_change_interface_id(s, interface_id)
                            ELSE sub_change_interface_id(s, if1))]],
            ![k].interfaces = Map(@, LAMBDA s :
                IF IsInline(s) THEN inline_change_interface_id(s, interface_id)
                ELSE SetKey(s, "nicid", if1)),
            ![k].interface_id = if1]
    IN  Result("ok", staged, TRUE, NoneA, None, "no")

\* SubInterface.change_vlan_id(vlan_id)
sub_change_vlan_id(s, vid) ==
    SetKey(s, "nicid", Dot(Split(s.nicid, ".")[1], Str(vid)))

\* InlineInterface.change_vlan_id(vlan_id): 'a-b' gives each side its own tag
inline_change_vlan_id(s, vid) ==
    LET new == Split(Str(vid), "-")
        old == Split(s.nicid, "-")
    IN  SetKey(s, "nicid",
               Dot(Split(old[1], ".")[1], new[1]) \o <<"-">>
               \o Dot(Split(Last(old), ".")[1], Last(new)))

\* PhysicalInterface.change_vlan_id(original, new)
change_vlan_id(intfs, k, original, new) ==
    LET v == get_vlan(intfs[k], original) IN
    IF v = 0 THEN Abort("InterfaceNotFound", intfs)
    ELSE
      LET newvlan == Split(Str(new), "-")
          staged ==
            [intfs EXCEPT ![k].vlanInterfaces[v] =
                [@ EXCEPT
                    !.interface_id = Dot(Split(@, ".")[1], newvlan[1]),
                    !.interfaces = Map(@, LAMBDA s :
                        IF IsInline(s) THEN inline_change_vlan_id(s, new)
                        ELSE sub_change_vlan_id(s, newvlan[1]))]]
      IN  Result("ok", staged, TRUE, NoneA, None, "no")

\* remove_vlan that matches on the id of the interface alone
builder_remove_vlan_all(draft, vid) ==
    [draft EXCEPT !.vlanInterfaces = <<>>]

\* InterfaceBuilder.remove_vlan(vlan_id) on the draft of an interface
builder_remove_vlan(draft, vid) ==
    [draft EXCEPT !.vlanInterfaces =
        SelectSeq(@, LAMBDA vlan :
            ~(vlan.interface_id = Dot(Str(draft.interface_id), Str(vid))))]

\* remove_vlan that keeps quiet about a VLAN the interface does not have
remove_vlan_quiet(intfs, k, vid) ==
    IF get_vlan(intfs[k], vid) = 0 THEN Result("ok", intfs, FALSE, NoneA, None, "no")
    ELSE [Result("ok", [intfs EXCEPT ![k] = builder_remove_vlan(@, vid)],
                 TRUE, NoneA, Dot(Str(intfs[k].interface_id), Str(vid)), "vlan")
            EXCEPT !.intfs = intfs]

\* PhysicalInterface.remove_vlan(vlan_id)
remove_vlan(intfs, k, vid) ==
    IF get_vlan(intfs[k], vid) = 0 THEN Abort("InterfaceNotFound", intfs)
    ELSE \* the builder holds its own list of VLANs: self.data keeps the VLAN
         [Result("ok", [intfs EXCEPT ![k] = builder_remove_vlan(@, vid)],
                 TRUE, NoneA, Dot(Str(intfs[k].interface_id), Str(vid)), "vlan")
            EXCEPT !.intfs = intfs]

\* Interface.reset_interface()
reset_interface(intfs, k) ==
    Result("ok", [intfs EXCEPT ![k].interfaces = <<>>, ![k].vlanInterfaces = <<>>],
           TRUE, NoneA, intfs[k].interface_id, "node")

-----------------------------------------------------------------------------
(* Routing (engine.routing) and the engine's side of an update *)

\* the routing entries the engine derives from interface data: one for each
\* network of each interface or VLAN
RoutesOf(intfs) ==
    {[nicid |-> RefId(intfs, IF p.v = 0 THEN TopRef(p.i) ELSE VlanRef(p.i, p.v)),
      network |-> NetworkOf(SubAt(intfs, p)), invalid |-> FALSE] :
        p \in {q \in SubPaths(intfs) : Has(SubAt(intfs, q), "network_value")}}

\* the routing table after the engine stored new interface data: an entry
\* whose network is on its interface no longer stays, as invalid
ServerRouting(old, intfs) ==
    RoutesOf(intfs) \cup
    {[r EXCEPT !.invalid = TRUE] :
        r \in {o \in old : [o EXCEPT !.invalid = FALSE] \notin RoutesOf(intfs)}}

\* the entries the operation deletes once its update is stored
Purged(routes, r) ==
    CASE r.purge = "invalid" -> {e \in routes : e.nicid = r.nicid /\ e.invalid}
      [] r.purge = "node"    -> {e \in routes : e.nicid = r.nicid}
      [] r.purge = "vlan"    -> {e \in routes : e.nicid = r.nicid}
      [] OTHER               -> {}

RECURSIVE SetToSeq(_)
SetToSeq(S) ==
    IF S = {} THEN <<>>
    ELSE LET x == CHOOSE y \in S : TRUE IN <<x>> \o SetToSeq(S \ {x})

UpdateRequest(k, json) == [method |-> "update", href |-> k, json |-> json[k]]
DeleteRequest(route) == [method |-> "delete", href |-> route.nicid, json |-> route]

-----------------------------------------------------------------------------
(* The mutation operations as steps.  The caller applies one operation and *)
(* may then apply it once more, with the same arguments.                    *)

ChangeCall(op, k, args) == [op |-> op, k |-> k, args |-> args]

\* the outcome of a call on the engine data as loaded
Apply(c) ==
    LET a == c.args IN
    CASE c.op = "change_single_interface" ->
            change_single_interface(interfaces, c.k, a[1], a[2], a[3], a[4])
      [] c.op = "change_cluster_interface" ->
            change_cluster_interface(interfaces, c.k, a[1], a[2], a[3], a[4],
                                     a[5], a[6], a[7])
      [] c.op = "change_interface_id" -> change_interface_id(interfaces, c.k, a[1])
      [] c.op = "change_vlan_id" -> change_vlan_id(interfaces, c.k, a[1], a[2])
      [] c.op = "remove_vlan" -> remove_vlan(interfaces, c.k, a[1])
      [] c.op = "reset_interface" -> reset_interface(interfaces, c.k)

\* Run a call; server_ok: the engine accepts the update
Commit(c, r, server_ok) ==
    /\ pre' = interfaces
    /\ call' = c
    /\ prev' = IF outcome.status = "idle" THEN prev
               ELSE [call |-> call, status |-> outcome.status]
    /\ UNCHANGED <<engine_type, builder, credentials>>
    /\ IF ~r.commit
       THEN /\ interfaces' = r.intfs
            /\ requests' = <<>>
            /\ outcome' = [status |-> r.status, ret |-> r.ret]
            /\ cache_valid' = TRUE
            /\ UNCHANGED routing
       ELSE IF ~server_ok
       THEN /\ interfaces' = r.intfs
            /\ requests' = <<UpdateRequest(c.k, r.json)>>
            /\ outcome' = [status |-> "UpdateElementFailed", ret |-> NoneA]
            /\ cache_valid' = TRUE
            /\ UNCHANGED routing
       ELSE LET stored == ServerRouting(routing, r.json)
                gone == IF r.purge = "StopIteration" THEN {} ELSE Purged(stored, r)
            IN  /\ interfaces' = r.json
                /\ routing' = stored \ gone
                /\ requests' = <<UpdateRequest(c.k, r.json)>>
                                 \o Map(SetToSeq(gone), DeleteRequest)
                /\ outcome' = IF r.purge = "StopIteration"
                              THEN [status |-> "StopIteration", ret |-> NoneA]
                              ELSE [status |-> r.status, ret |-> r.ret]
                /\ cache_valid' = FALSE

Perform(c, server_ok) == Commit(c, Apply(c), server_ok)

ChangeSingleInterface(k, address, network_value, zone_ref, vid, server_ok) ==
    /\ outcome.status = "idle"
    /\ Perform(ChangeCall("change_single_interface", k,
                          <<address, network_value, zone_ref, vid>>), server_ok)

ChangeClusterInterface(k, cluster_virtual, network_value, nodes, macaddress, vid, zone_ref, comment, server_ok) ==
    /\ outcome.status = "idle"
    /\ Perform(ChangeCall("change_cluster_interface", k,
                          <<cluster_virtual, network_value, nodes, macaddress,
                            vid, zone_ref, comment>>), server_ok)

ChangeInterfaceId(k, interface_id, server_ok) ==
    /\ outcome.status = "idle"
    /\ Perform(ChangeCall("change_interface_id", k, <<interface_id>>), server_ok)

ChangeVlanId(k, original, new, server_ok) ==
    /\ outcome.status = "idle"
    /\ Perform(ChangeCall("change_vlan_id", k, <<original, new>>), server_ok)

RemoveVlan(k, vid, server_ok) ==
    /\ outcome.status = "idle"
    /\ Perform(ChangeCall("remove_vlan", k, <<vid>>), server_ok)

ResetInterface(k, server_ok) ==
    /\ outcome.status = "idle"
    /\ Perform(ChangeCall("reset_interface", k, <<>>), server_ok)

\* the caller applies the operation it applied last once more
Reapply(server_ok) ==
    /\ outcome.status # "idle"
    /\ prev.call = NoCall
    /\ Perform(call, server_ok)

\* engines with single, cluster and inline interfaces, with and without VLANs
SingleVlanShape ==
    << PhysicalInterface(ID("1"), <<SingleNodeInterface(ID("1"), "a1", "n1")>>, <<>>),
       PhysicalInterface(ID("2"), <<>>,
          << PhysicalVlanInterface_create(ID("2"), ID("5"), NoneA,
                <<SingleNodeInterface(Dot(ID("2"), ID("5")), "a2", "n2")>>, NoneA),
             PhysicalVlanInterface_create(ID("2"), ID("6"), NoneA, <<>>, NoneA) >>) >>

ClusterVlanShape ==
    << PhysicalInterface(ID("1"),
          << ClusterVirtualInterface(ID("1"), "a1", "n1"),
             NodeInterface(ID("1"), "a2", "n1", 1),
             NodeInterface(ID("1"), "a3", "n1", 2) >>, <<>>),
       PhysicalInterface(ID("2"), <<>>,
          << PhysicalVlanInterface_create(ID("2"), ID("5"), NoneA,
                << ClusterVirtualInterface(Dot(ID("2"), ID("5")), "a4", "n2"),
                   NodeInterface(Dot(ID("2"), ID("5")), "a5", "n2", 1) >>, NoneA) >>) >>

InlineVlanShape ==
    << PhysicalInterface(ID("1"), <<NodeInterface(ID("1"), "a1", "n1", 1)>>, <<>>),
       PhysicalInterface(ID("3"), <<InlineInterface(JoinDash(<<ID("3"), ID("4")>>))>>, <<>>),
       PhysicalInterface(ID("5"), <<>>,
          << PhysicalVlanInterface_create(ID("5"), ID("7"), NoneA,
                <<InlineInterface(JoinDash(<<Dot(ID("5"), ID("7")),
                                             Dot(ID("6"), ID("8"))>>))>>, NoneA) >>) >>

ChangeShapes ==
    { [type |-> "single_fw", intfs |-> SingleVlanShape],
      [type |-> "fw_cluster", intfs |-> ClusterVlanShape],
      [type |-> "single_layer2", intfs |-> InlineVlanShape] }

NodeArgs ==
    { <<>>,
      << [address |-> "a2", network_value |-> "n1", nodeid |-> 1],
         [address |-> "a3", network_value |-> "n1", nodeid |-> 2] >>,
      << [address |-> "a8", network_value |-> "n9", nodeid |-> 1] >> }

VlanArgs == {None, ID("5")}
ZoneArgs == {NoneA, "zoneA"}

\* entries an earlier change left invalid: one for a network that is no
\* longer used, on every interface and VLAN that has an address
StaleRoutes(intfs) ==
    {[nicid |-> r.nicid, network |-> "n0", invalid |-> TRUE] : r \in RoutesOf(intfs)}

InitChange ==
    /\ \E e \in ChangeShapes :
          /\ engine_type = e.type
          /\ interfaces = e.intfs
    /\ routing \in {RoutesOf(interfaces), RoutesOf(interfaces) \cup StaleRoutes(interfaces)}
    /\ requests = <<>>
    /\ cache_valid = TRUE
    /\ pre = interfaces
    /\ call = NoCall
    /\ prev = NoPrev
    /\ outcome = Idle
    /\ builder = NoBuilder
    /\ credentials = NoCredentials

\* the interfaces a first call can be made on
Callable == IF outcome.status = "idle" THEN DOMAIN interfaces ELSE {}

NextChange ==
    \/ \E k \in Callable, address \in {"a1", "a2", "a9"},
          network_value \in {"n1", "n2", "n9"}, zone_ref \in ZoneArgs,
          vid \in VlanArgs, server_ok \in BOOLEAN :
          ChangeSingleInterface(k, address, network_value, zone_ref, vid, server_ok)
    \/ \E k \in Callable, cluster_virtual \in {NoneA, "a1", "a9"},
          network_value \in {NoneA, "n1", "n9"}, nodes \in NodeArgs,
          macaddress \in {NoneA, "mac"}, vid \in VlanArgs, zone_ref \in ZoneArgs,
          comment \in {NoneA, "text"}, server_ok \in BOOLEAN :
          ChangeClusterInterface(k, cluster_virtual, network_value, nodes,
                                 macaddress, vid, zone_ref, comment, server_ok)
    \/ \E k \in Callable, server_ok \in BOOLEAN,
          interface_id \in {ID("1"), ID("8"), JoinDash(<<ID("8"), ID("9")>>)} :
          ChangeInterfaceId(k, interface_id, server_ok)
    \/ \E k \in Callable, server_ok \in BOOLEAN,
          original \in {ID("5"), ID("7"), JoinDash(<<ID("7"), ID("8")>>)},
          new \in {ID("5"), ID("6"), JoinDash(<<ID("7"), ID("9")>>)} :
          ChangeVlanId(k, original, new, server_ok)
    \/ \E k \in Callable, server_ok \in BOOLEAN,
          vid \in {ID("5"), ID("7"), JoinDash(<<ID("7"), ID("8")>>)} :
          RemoveVlan(k, vid, server_ok)
    \/ \E k \in Callable, server_ok \in BOOLEAN : ResetInterface(k, server_ok)
    \/ \E server_ok \in BOOLEAN : Reapply(server_ok)

SpecChange == InitChange /\ [][NextChange]_vars

-----------------------------------------------------------------------------
(* Claims about the mutation operations *)

ChangeOps == {"change_single_interface", "change_cluster_interface",
              "change_interface_id", "change_vlan_id", "remove_vlan",
              "reset_interface"}

\* the operation was applied a second time, after a first application with
\* the same arguments had succeeded
Reapplied == prev.call = call /\ prev.status = "ok"

\* C8 as stated: a mutation operation applied again with the arguments of a
\* successful first application stages no change and issues no request
C8_ReapplyIsNoOp ==
    (call.op \in ChangeOps /\ Reapplied)
        => /\ requests = <<>>
           /\ interfaces = pre

\* the vlan_id argument of a change_single_interface or
\* change_cluster_interface call
VlanArg == IF call.op = "change_single_interface" THEN call.args[4] ELSE call.args[5]

\* the call got past the checks on VLANs: it named the VLAN if the interface
\* has VLANs, and the VLAN exists
Targeted ==
    /\ has_vlan(pre[call.k]) => VlanArg # None
    /\ VlanArg # None => get_vlan(pre[call.k], VlanArg) # 0

\* the interface or VLAN whose addresses the call is about
ChangeTarget ==
    IF VlanArg # None THEN VlanRef(call.k, get_vlan(pre[call.k], VlanArg))
    ELSE TopRef(call.k)

\* C9: change_single_interface called, without a zone, with the address and
\* network every targeted sub-interface already has, stages no change, issues
\* no update and no deletion of a routing entry, leaves the engine cache
\* alone and returns False
C9_SameAddressNoCommit ==
    (/\ call.op = "change_single_interface"
     /\ Targeted
     /\ call.args[3] = NoneA
     /\ \A n \in DOMAIN RefSubs(pre, ChangeTarget) :
           /\ AddressOf(RefSubs(pre, ChangeTarget)[n]) = call.args[1]
           /\ NetworkOf(RefSubs(pre, ChangeTarget)[n]) = call.args[2])
        => /\ outcome = [status |-> "ok", ret |-> FALSE]
           /\ interfaces = pre
           /\ requests = <<>>
           /\ cache_valid

\* C9's case: an address was changed, and the same call made again finds the
\* address in place and returns False without a request
C9_Witness ==
    /\ call.op = "change_single_interface"
    /\ Reapplied
    /\ call.args[1] = "a9" /\ call.args[3] = NoneA
    /\ Len(RefSubs(pre, ChangeTarget)) > 0
    /\ outcome = [status |-> "ok", ret |-> FALSE]
    /\ requests = <<>>

\* the zone of the interface or VLAN the call is about
TargetZone ==
    IF ChangeTarget.kind = "top" THEN pre[call.k].zone_ref
    ELSE pre[call.k].vlanInterfaces[ChangeTarget.v].zone_ref

\* a value proposed by a change_single_interface call differs from the
\* current one
SingleDiffers ==
    \/ call.args[3] # NoneA /\ zone_helper(call.args[3]) # TargetZone
    \/ \E n \in DOMAIN RefSubs(pre, ChangeTarget) :
          \/ AddressOf(RefSubs(pre, ChangeTarget)[n]) # call.args[1]
          \/ NetworkOf(RefSubs(pre, ChangeTarget)[n]) # call.args[2]

\* a value proposed by a change_cluster_interface call differs from the
\* current one
ClusterDiffers ==
    \/ call.args[4] # NoneA /\ call.args[4] # pre[call.k].macaddress
    \/ call.args[7] # NoneA /\ call.args[7] # pre[call.k].comment
    \/ call.args[6] # NoneA /\ zone_helper(call.args[6]) # TargetZone
    \/ \E n \in DOMAIN RefSubs(pre, ChangeTarget) :
          LET s == RefSubs(pre, ChangeTarget)[n] IN
          \/ /\ IsCVI(s)
             /\ \/ call.args[1] # NoneA /\ call.args[1] # AddressOf(s)
                \/ call.args[2] # NoneA /\ call.args[2] # NetworkOf(s)
          \/ /\ IsNode(s)
             /\ \E m \in DOMAIN call.args[3] :
                   /\ call.args[3][m].nodeid = s.nodeid
                   /\ \/ call.args[3][m].address # AddressOf(s)
                      \/ call.args[3][m].network_value # NetworkOf(s)

UpdateRequests == SelectSeq(requests, LAMBDA q : q.method = "update")

\* C10 as stated: change_single_interface and change_cluster_interface issue
\* exactly one update when a proposed value differs from the current one,
\* with the cache invalidated and True returned once the update is stored;
\* when none differs they issue no request and return False
C10_CommitIffDifferent ==
    (call.op \in {"change_single_interface", "change_cluster_interface"} /\ Targeted)
        => IF (IF call.op = "change_single_interface"
               THEN SingleDiffers ELSE ClusterDiffers)
           THEN /\ Len(UpdateRequests) = 1
                /\ outcome.status = "ok" => outcome.ret = TRUE /\ ~cache_valid
           ELSE /\ requests = <<>>
                /\ outcome = [status |-> "ok", ret |-> FALSE]

\* C11: change_single_interface and change_cluster_interface called without
\* a vlan_id on an interface that has VLANs raise ModificationAborted with
\* nothing staged: the interface data is as before, no request (update or
\* deletion of a routing entry) is issued and the cache is not invalidated
C11_MissingVlanAborts ==
    (/\ call.op \in {"change_single_interface", "change_cluster_interface"}
     /\ Len(pre[call.k].vlanInterfaces) > 0
     /\ VlanArg = None)
        => /\ outcome.status = "ModificationAborted"
           /\ interfaces = pre
           /\ requests = <<>>
           /\ cache_valid

\* C11's case: a change_cluster_interface call that proposes a new MAC
\* address and a new zone for an interface with VLANs, without a vlan_id
C11_Witness ==
    /\ call.op = "change_cluster_interface"
    /\ Len(pre[call.k].vlanInterfaces) > 0
    /\ VlanArg = None
    /\ call.args[4] = "mac" /\ call.args[6] = "zoneA"
    /\ outcome.status = "ModificationAborted"

\* the sub-interfaces directly under the interface or VLAN the call is about
TargetPaths == {p \in SubPaths(pre) : InRef(p, ChangeTarget)}

\* the call changed a sub-interface of its target, and the network of that
\* sub-interface is not the one it had before the call
PrefixChanged ==
    \E p \in TargetPaths :
        /\ SubAt(interfaces, p) # SubAt(pre, p)
        /\ NetworkOf(SubAt(interfaces, p)) # NetworkOf(SubAt(pre, p))

DeleteRequests == SelectSeq(requests, LAMBDA q : q.method = "delete")

\* C12 as stated, for change_single_interface on a single firewall and
\* change_cluster_interface on a firewall cluster: after a call that sent its
\* update and returned, no routing entry of the changed interface or VLAN
\* that the change made invalid is left if the network of a changed
\* sub-interface differs from the one before the call; no routing entry is
\* deleted if none differs; and no entry of another interface is ever deleted
C12_PurgeIffPrefixChanged ==
    (/\ \/ call.op = "change_single_interface" /\ engine_type = "single_fw"
        \/ call.op = "change_cluster_interface" /\ engine_type = "fw_cluster"
     /\ Targeted
     /\ outcome = [status |-> "ok", ret |-> TRUE])
        => /\ PrefixChanged =>
                \A e \in routing :
                    ~(/\ e.nicid = RefId(pre, ChangeTarget)
                      /\ e.invalid
                      /\ [e EXCEPT !.invalid = FALSE] \in RoutesOf(pre))
           /\ ~PrefixChanged => DeleteRequests = <<>>
           /\ \A n \in DOMAIN DeleteRequests :
                 DeleteRequests[n].href = RefId(pre, ChangeTarget)

-----------------------------------------------------------------------------
(* InterfaceBuilder and dispatch.  The builder of an existing interface is *)
(* made from the interface's data: its lists are the lists of the engine   *)
(* data, so what is appended to them is appended to the engine data as     *)
(* loaded, until the builder binds a list of its own.                      *)

\* the data of the object a reference names
RefData(intfs, ref) ==
    IF ref.kind = "top" THEN intfs[ref.i] ELSE intfs[ref.i].vlanInterfaces[ref.v]

\* InterfaceBuilder(): the attributes of a builder for a new physical interface
InterfaceBuilder_new(interface_id) ==
    [interface_id |-> interface_id, interfaces |-> <<>>, vlanInterfaces |-> <<>>,
     zone_ref |-> NoneA]

\* the places in the engine data of the VLANs of the loaded interface
Origins(data) ==
    IF "vlanInterfaces" \in DOMAIN data
    THEN [v \in DOMAIN data.vlanInterfaces |-> v] ELSE <<>>

\* getBuilder that never loads the existing interface
getBuilder_fresh(intfs, interface_id) ==
    [state |-> "open", data |-> InterfaceBuilder_new(interface_id),
     interface |-> NotFound, origins |-> <<>>, shared |-> FALSE,
     before |-> InterfaceBuilder_new(interface_id), nops |-> 0, ops |-> <<>>]

\* InterfaceBuilder.getBuilder(instance, interface_id).  origins names, for
\* each VLAN of the draft, the VLAN of the engine data it is (0: none);
\* shared tells whether the draft's list of VLANs is the engine's list.
getBuilder(intfs, interface_id) ==
    LET interface == Get(intfs, interface_id) IN
    IF interface = NotFound
    THEN [state |-> "open", data |-> InterfaceBuilder_new(interface_id),
          interface |-> NotFound, origins |-> <<>>, shared |-> FALSE,
          before |-> InterfaceBuilder_new(interface_id), nops |-> 0, ops |-> <<>>]
    ELSE [state |-> "open", data |-> RefData(intfs, interface),
          interface |-> interface, origins |-> Origins(RefData(intfs, interface)),
          shared |-> TRUE,
          before |-> RefData(intfs, interface), nops |-> 0, ops |-> <<>>]

\* the outcome of a method of the builder: the builder and the engine data
\* as they are after it
Built(status, b, intfs) == [status |-> status, builder |-> b, intfs |-> intfs]

\* the builder has no attribute vlanInterfaces (it was loaded from a VLAN)
NoVlanList(b) == "vlanInterfaces" \notin DOMAIN b.data

\* self.vlanInterfaces.append(vlan)
AppendVlan(b, intfs, vlan) ==
    IF b.shared
    THEN Built("ok",
               [b EXCEPT !.data.vlanInterfaces = Append(@, vlan),
                         !.origins = Append(@, Len(intfs[b.interface.i].vlanInterfaces) + 1)],
               [intfs EXCEPT ![b.interface.i].vlanInterfaces = Append(@, vlan)])
    ELSE Built("ok",
               [b EXCEPT !.data.vlanInterfaces = Append(@, vlan),
                         !.origins = Append(@, 0)],
               intfs)

\* vlan['interfaces'].append(sub) for the VLAN at place j of the draft
AppendToVlan(b, intfs, j, sub) ==
    Built("ok",
          [b EXCEPT !.data.vlanInterfaces[j].interfaces = Append(@, sub)],
          IF b.origins[j] # 0
          THEN [intfs EXCEPT ![b.interface.i].vlanInterfaces[b.origins[j]].interfaces =
                                 Append(@, sub)]
          ELSE intfs)

\* InterfaceBuilder.add_vlan_only(vlan_id, zone_ref=, comment=)
add_vlan_only(b, intfs, vid, zone_ref, comment) ==
    IF NoVlanList(b) THEN Built("AttributeError", b, intfs)
    ELSE AppendVlan(b, intfs,
            PhysicalVlanInterface_create(b.data.interface_id, vid, zone_ref,
                                         <<>>, comment))

\* cls.create(self.interface_id, address, network_value, nodeid=, nicid=)
NodeCreate(cls, nicid, address, network_value, nodeid) ==
    IF cls = "SingleNodeInterface"
    THEN SingleNodeInterface(nicid, address, network_value)
    ELSE NodeInterface(nicid, address, network_value, nodeid)

\* InterfaceBuilder.add_ndi_to_vlan(address, network_value, vlan_id, nodeid,
\*                                  zone_ref, comment, cls)
add_ndi_to_vlan(b, intfs, address, network_value, vid, nodeid, zone_ref, comment, cls) ==
    IF NoVlanList(b) THEN Built("AttributeError", b, intfs)
    ELSE
      LET vlan_str == Dot(Str(b.data.interface_id), Str(vid))
          intf == NodeCreate(cls, vlan_str, address, network_value, nodeid)
          hits == {j \in DOMAIN b.data.vlanInterfaces :
                      b.data.vlanInterfaces[j].interface_id = vlan_str}
      IN  IF hits # {}
          THEN AppendToVlan(b, intfs, CHOOSE j \in hits : \A i \in hits : j <= i, intf)
          ELSE AppendVlan(b, intfs,
                  PhysicalVlanInterface_create(b.data.interface_id, vid, zone_ref,
                                               <<intf>>, comment))

\* InterfaceBuilder.add_sni_to_vlan(address, network_value, vlan_id, ...)
add_sni_to_vlan(b, intfs, address, network_value, vid, zone_ref, comment) ==
    add_ndi_to_vlan(b, intfs, address, network_value, vid, 1, zone_ref, comment,
                    "SingleNodeInterface")

\* InterfaceBuilder.add_cvi_to_vlan(address, network_value, vlan_id, zone_ref=, comment=)
add_cvi_to_vlan(b, intfs, address, network_value, vid, zone_ref, comment) ==
    IF NoVlanList(b) THEN Built("AttributeError", b, intfs)
    ELSE AppendVlan(b, intfs,
            PhysicalVlanInterface_create(
                b.data.interface_id, vid, zone_ref,
                <<ClusterVirtualInterface(Dot(Str(b.data.interface_id), Str(vid)),
                                          address, network_value)>>,
                comment))

\* the places of the VLANs that InterfaceBuilder.remove_vlan keeps
KeptVlans(data, vid) ==
    {j \in DOMAIN data.vlanInterfaces :
        data.vlanInterfaces[j].interface_id # Dot(Str(data.interface_id), Str(vid))}

\* the elements of seq at the places in S, in order
RECURSIVE Pick(_, _, _)
Pick(seq, S, j) ==
    IF j > Len(seq) THEN <<>>
    ELSE (IF j \in S THEN <<seq[j]>> ELSE <<>>) \o Pick(seq, S, j + 1)

\* InterfaceBuilder.remove_vlan(vlan_id) on the builder: the new list of
\* VLANs is the builder's own
remove_vlan_builder(b, intfs, vid) ==
    IF NoVlanList(b) THEN Built("AttributeError", b, intfs)
    ELSE Built("ok",
               [b EXCEPT !.data = builder_remove_vlan(@, vid),
                         !.origins = Pick(@, KeptVlans(b.data, vid), 1),
                         !.shared = FALSE],
               intfs)


\* self.interfaces.append(sub): the list of a loaded builder is the list of
\* the engine data
AppendSub(b, intfs, sub) ==
    Built("ok",
          [b EXCEPT !.data.interfaces = Append(@, sub)],
          IF b.interface = NotFound THEN intfs
          ELSE IF b.interface.kind = "top"
          THEN [intfs EXCEPT ![b.interface.i].interfaces = Append(@, sub)]
          ELSE [intfs EXCEPT ![b.interface.i].vlanInterfaces[b.interface.v].interfaces =
                                 Append(@, sub)])

\* InterfaceBuilder.add_cvi_only(address, network_value, is_mgmt=)
add_cvi_only(b, intfs, address, network_value, is_mgmt) ==
    AppendSub(b, intfs,
        IF is_mgmt
        THEN SetKey(ClusterVirtualInterface(b.data.interface_id, address, network_value),
                    "auth_request", TRUE)
        ELSE ClusterVirtualInterface(b.data.interface_id, address, network_value))

\* add_sni_only that takes no notice of is_mgmt
add_sni_only_plain(b, intfs, address, network_value, is_mgmt) ==
    AppendSub(b, intfs, SingleNodeInterface(b.data.interface_id, address, network_value))

\* InterfaceBuilder.add_sni_only(address, network_value, is_mgmt=)
add_sni_only(b, intfs, address, network_value, is_mgmt) ==
    AppendSub(b, intfs,
        IF is_mgmt
        THEN SetKey(SetKey(SetKey(
                 SingleNodeInterface(b.data.interface_id, address, network_value),
                 "auth_request", TRUE), "outgoing", TRUE), "primary_mgt", TRUE)
        ELSE SingleNodeInterface(b.data.interface_id, address, network_value))

\* InterfaceBuilder.add_ndi_only(address, network_value, nodeid=, is_mgmt=)
add_ndi_only(b, intfs, address, network_value, nodeid, is_mgmt) ==
    AppendSub(b, intfs,
        IF is_mgmt
        THEN SetKey(SetKey(SetKey(
                 NodeInterface(b.data.interface_id, address, network_value, nodeid),
                 "primary_mgt", TRUE), "outgoing", TRUE), "primary_heartbeat", TRUE)
        ELSE NodeInterface(b.data.interface_id, address, network_value, nodeid))

\* if_type.create(interface_id, logical_interface_ref, zone_ref=), with the
\* failure mode that every type but InlineL2FWInterface has
InlineCreate(if_type, nicid, zone_ref, failure_mode) ==
    IF if_type = "inline_l2fw_interface"
    THEN [typeof |-> if_type, nicid |-> nicid, logical_interface_ref |-> "logical",
          zone_ref |-> zone_ref]
    ELSE [typeof |-> if_type, nicid |-> nicid, logical_interface_ref |-> "logical",
          zone_ref |-> zone_ref, failure_mode |-> failure_mode]

\* _add_vlan_to_inline(inline, vlan_id, vlan_id2): the nic id 'a.v-b.w' of
\* the pair 'a-b', w being v when no second VLAN id is given
add_vlan_to_inline(s, vid, vid2) ==
    LET pair == Split(s.nicid, "-")
    IN  [s EXCEPT !.nicid = Dot(pair[1], Str(vid)) \o <<"-">>
                            \o Dot(Last(pair), Str(IF vid2 = None THEN vid ELSE vid2))]

\* the first part of add_l2_inline: the base inline interface, if the draft
\* has no sub-interface yet
l2_inline_base(b, intfs, interface_id, vid, zone2, if_type) ==
    IF Len(b.data.interfaces) = 0
    THEN AppendSub(b, intfs,
            InlineCreate(if_type, interface_id,
                         IF vid = None THEN zone_helper(zone2) ELSE NoneA, "normal"))
    ELSE Built("ok", b, intfs)

\* the second part of add_l2_inline, for a VLAN id: the VLAN with its
\* inline interface
l2_inline_vlan(b, intfs, interface_id, vid, vid2, zone1, zone2, if_type) ==
    IF if_type # "inline_l2fw_interface" /\ b.data.interfaces[1].typeof # if_type
    THEN Built("KeyError", b, intfs)
    ELSE IF NoVlanList(b) THEN Built("AttributeError", b, intfs)
    ELSE AppendVlan(b, intfs,
            PhysicalVlanInterface_create(
                Split(interface_id, "-")[1], vid, zone1,
                <<add_vlan_to_inline(
                     InlineCreate(if_type, interface_id, zone_helper(zone2),
                                  IF if_type = "inline_l2fw_interface" THEN "normal"
                                  ELSE b.data.interfaces[1].failure_mode),
                     vid,
                     IF if_type # "inline_interface" THEN vid ELSE vid2)>>,
                NoneA))

\* add_l2_inline in which every call creates a base inline interface
add_l2_inline_again(b, intfs, interface_id, vid, vid2, zone1, zone2, if_type) ==
    IF vid = None
    THEN AppendSub(b, intfs, InlineCreate(if_type, interface_id, NoneA, "normal"))
    ELSE l2_inline_vlan(
            AppendSub(b, intfs, InlineCreate(if_type, interface_id, NoneA, "normal")).builder,
            AppendSub(b, intfs, InlineCreate(if_type, interface_id, NoneA, "normal")).intfs,
            interface_id, vid, vid2, zone1, zone2, if_type)

\* InterfaceBuilder.add_l2_inline(interface_id, logical_interface_ref, vlan_id,
\*     vlan_id2, zone_ref_intf1, zone_ref_intf2, if_type)
add_l2_inline(b, intfs, interface_id, vid, vid2, zone1, zone2, if_type) ==
    IF vid = None THEN l2_inline_base(b, intfs, interface_id, vid, zone2, if_type)
    ELSE l2_inline_vlan(l2_inline_base(b, intfs, interface_id, vid, zone2, if_type).builder,
                        l2_inline_base(b, intfs, interface_id, vid, zone2, if_type).intfs,
                        interface_id, vid, vid2, zone1, zone2, if_type)

\* the version tag of an interface as it was loaded
ETag(ref) == [etag_of |-> ref]

\* the engine data as fetched again once the server has stored the body
Stored(intfs, interface, data) ==
    IF interface = NotFound THEN Append(intfs, data)
    ELSE IF interface.kind = "top" THEN [intfs EXCEPT ![interface.i] = data]
    ELSE [intfs EXCEPT ![interface.i].vlanInterfaces[interface.v] = data]

\* dispatch that resets the engine cache whether or not the request succeeded
dispatch_always_reset(data, interface, intfs, server_ok) ==
    [status |-> IF server_ok THEN "ok" ELSE "EngineCommandFailed",
     request |-> IF interface # NotFound
                 THEN [method |-> "update", href |-> interface,
                       etag |-> ETag(interface), json |-> data]
                 ELSE [method |-> "create", href |-> "collection", json |-> data],
     intfs |-> IF server_ok THEN Stored(intfs, interface, data) ELSE intfs,
     reset |-> TRUE]

\* dispatch(instance, builder, interface): the request sent, the engine data
\* afterwards and whether the engine cache was reset
dispatch(data, interface, intfs, server_ok) ==
    [status |-> IF server_ok THEN "ok" ELSE "EngineCommandFailed",
     request |-> IF interface # NotFound
                 THEN [method |-> "update", href |-> interface,
                       etag |-> ETag(interface), json |-> data]
                 ELSE [method |-> "create", href |-> "collection", json |-> data],
     intfs |-> IF server_ok THEN Stored(intfs, interface, data) ELSE intfs,
     reset |-> server_ok]

\* setattr(builder, key, value): an attribute of the builder, not of the
\* engine data
SetAttr(r, key, value) == [r EXCEPT !.builder.data = SetKey(@, key, value)]

\* builder.zone = zone_ref
SetZone(r, zone_ref) == SetAttr(r, "zone_ref", zone_helper(zone_ref))

\* for node in nodes: builder.add_ndi_only(**node), from node n on
RECURSIVE AddNodesOnly(_, _, _, _)
AddNodesOnly(r, nodes, n, is_mgmt) ==
    IF n > Len(nodes) THEN r
    ELSE AddNodesOnly(add_ndi_only(r.builder, r.intfs, nodes[n].address,
                                   nodes[n].network_value, nodes[n].nodeid, is_mgmt),
                      nodes, n + 1, is_mgmt)

\* for node in nodes: builder.add_ndi_to_vlan(**node), from node n on
RECURSIVE AddNodesToVlan(_, _, _, _)
AddNodesToVlan(r, nodes, n, vid) ==
    IF n > Len(nodes) \/ r.status # "ok" THEN r
    ELSE AddNodesToVlan(add_ndi_to_vlan(r.builder, r.intfs, nodes[n].address,
                                        nodes[n].network_value, vid, nodes[n].nodeid,
                                        NoneA, NoneA, "NodeInterface"),
                        nodes, n + 1, vid)

\* PhysicalInterface.add_layer3_interface(interface_id, address, network_value,
\*     zone_ref=, is_mgmt=, comment=): the builder after the adds
add_layer3_interface(b, intfs, type, address, network_value, zone_ref, is_mgmt, comment) ==
    SetAttr(IF type = "single_fw"
            THEN add_sni_only(IF zone_ref # NoneA THEN SetZone(Built("ok", b, intfs), zone_ref).builder ELSE b,
                              intfs, address, network_value, is_mgmt)
            ELSE add_ndi_only(IF zone_ref # NoneA THEN SetZone(Built("ok", b, intfs), zone_ref).builder ELSE b,
                              intfs, address, network_value, 1, is_mgmt),
            "comment", comment)

\* the first part of add_layer3_cluster_interface: the attributes and the CVI
cluster_interface_cvi(b, intfs, interface_id, cluster_virtual, network_value, macaddress, cvi_mode, is_mgmt, comment) ==
    IF cluster_virtual # NoneA /\ network_value # NoneA
    THEN add_cvi_only(
            SetAttr(SetAttr(SetAttr(SetAttr(Built("ok", b, intfs),
                "interface_id", interface_id), "comment", comment),
                "macaddress", macaddress), "cvi_mode", cvi_mode).builder,
            intfs, cluster_virtual, network_value, is_mgmt)
    ELSE SetAttr(SetAttr(SetAttr(SetAttr(Built("ok", b, intfs),
            "interface_id", interface_id), "comment", comment),
            "cvi_mode", NoneA), "macaddress", NoneA)

\* PhysicalInterface.add_layer3_cluster_interface(interface_id, cluster_virtual,
\*     network_value, macaddress, nodes, cvi_mode, zone_ref, is_mgmt, comment)
add_layer3_cluster_interface(b, intfs, interface_id, cluster_virtual, network_value, macaddress, nodes, cvi_mode, zone_ref, is_mgmt, comment) ==
    SetZone(AddNodesOnly(cluster_interface_cvi(b, intfs, interface_id, cluster_virtual,
                                               network_value, macaddress, cvi_mode,
                                               is_mgmt, comment),
                         nodes, 1, is_mgmt),
            zone_ref)

\* the first part of add_layer3_vlan_cluster_interface: the VLAN, with the
\* CVI if there is one
vlan_cluster_cvi(b, intfs, vid, cluster_virtual, network_value, macaddress, cvi_mode, zone_ref, comment) ==
    IF cluster_virtual # NoneA /\ network_value # NoneA
    THEN IF add_cvi_to_vlan(b, intfs, cluster_virtual, network_value, vid, zone_ref, comment).status # "ok"
         THEN add_cvi_to_vlan(b, intfs, cluster_virtual, network_value, vid, zone_ref, comment)
         ELSE IF macaddress # NoneA
         THEN SetAttr(SetAttr(add_cvi_to_vlan(b, intfs, cluster_virtual, network_value,
                                              vid, zone_ref, comment),
                              "macaddress", macaddress), "cvi_mode", cvi_mode)
         ELSE SetAttr(add_cvi_to_vlan(b, intfs, cluster_virtual, network_value, vid,
                                      zone_ref, comment),
                      "cvi_mode", NoneA)
    ELSE add_vlan_only(b, intfs, vid, zone_ref, comment)

\* PhysicalInterface.add_layer3_vlan_cluster_interface(interface_id, vlan_id,
\*     nodes, cluster_virtual, network_value, macaddress, cvi_mode, zone_ref, comment)
add_layer3_vlan_cluster_interface(b, intfs, vid, nodes, cluster_virtual, network_value, macaddress, cvi_mode, zone_ref, comment) ==
    AddNodesToVlan(vlan_cluster_cvi(b, intfs, vid, cluster_virtual, network_value,
                                    macaddress, cvi_mode, zone_ref, comment),
                   nodes, 1, vid)

\* add_layer3_vlan_interface that adds a node interface on every engine type
add_layer3_vlan_interface_ndi(b, intfs, type, vid, address, network_value, zone_ref, comment) ==
    IF address = NoneA
    THEN add_vlan_only(b, intfs, vid, zone_ref, comment)
    ELSE add_ndi_to_vlan(b, intfs, address, network_value, vid, 1, zone_ref, comment,
                         "NodeInterface")

\* PhysicalInterface.add_layer3_vlan_interface(interface_id, vlan_id, address,
\* network_value, zone_ref=, comment=): the builder after the add
add_layer3_vlan_interface(b, intfs, type, vid, address, network_value, zone_ref, comment) ==
    IF address = NoneA
    THEN add_vlan_only(b, intfs, vid, zone_ref, comment)
    ELSE IF type = "single_fw"
    THEN add_sni_to_vlan(b, intfs, address, network_value, vid, zone_ref, comment)
    ELSE add_ndi_to_vlan(b, intfs, address, network_value, vid, 1, zone_ref, comment,
                         "NodeInterface")

\* a call on the builder or with it
BuilderCall(op, args) == [op |-> op, k |-> 0, args |-> args]

\* InterfaceBuilder.getBuilder(instance, interface_id)
GetBuilder(interface_id) ==
    /\ builder = NoBuilder
    /\ builder' = getBuilder(interfaces, interface_id)
    /\ pre' = interfaces
    /\ call' = BuilderCall("getBuilder", <<interface_id>>)
    /\ outcome' = [status |-> "ok", ret |-> NoneA]
    /\ requests' = <<>>
    /\ UNCHANGED <<engine_type, interfaces, routing, cache_valid, prev, credentials>>

\* one method of the open builder, r its outcome
Build(c, r) ==
    /\ builder.state = "open"
    /\ builder.nops < MaxOps
    /\ builder' = [r.builder EXCEPT !.before = builder.data, !.nops = @ + 1,
                                     !.ops = Append(@, c.op)]
    /\ interfaces' = r.intfs
    /\ pre' = interfaces
    /\ call' = c
    /\ outcome' = [status |-> r.status, ret |-> NoneA]
    /\ requests' = <<>>
    /\ UNCHANGED <<engine_type, routing, cache_valid, prev, credentials>>

AddVlanOnly(vid, zone_ref, comment) ==
    Build(BuilderCall("add_vlan_only", <<vid, zone_ref, comment>>),
          add_vlan_only(builder, interfaces, vid, zone_ref, comment))

AddSniToVlan(address, network_value, vid) ==
    Build(BuilderCall("add_sni_to_vlan", <<vid, address, network_value>>),
          add_sni_to_vlan(builder, interfaces, address, network_value, vid, NoneA, NoneA))

AddNdiToVlan(address, network_value, vid, nodeid) ==
    Build(BuilderCall("add_ndi_to_vlan", <<vid, address, network_value, nodeid>>),
          add_ndi_to_vlan(builder, interfaces, address, network_value, vid, nodeid,
                          NoneA, NoneA, "NodeInterface"))

AddCviToVlan(address, network_value, vid) ==
    Build(BuilderCall("add_cvi_to_vlan", <<vid, address, network_value>>),
          add_cvi_to_vlan(builder, interfaces, address, network_value, vid, NoneA, NoneA))

AddL2Inline(interface_id, vid, vid2, if_type) ==
    Build(BuilderCall("add_l2_inline", <<interface_id, vid, vid2, if_type>>),
          add_l2_inline(builder, interfaces, interface_id, vid, vid2, NoneA, NoneA, if_type))

AddCviOnly(address, network_value, is_mgmt) ==
    Build(BuilderCall("add_cvi_only", <<address, network_value, is_mgmt>>),
          add_cvi_only(builder, interfaces, address, network_value, is_mgmt))

AddSniOnly(address, network_value, is_mgmt) ==
    Build(BuilderCall("add_sni_only", <<address, network_value, is_mgmt>>),
          add_sni_only(builder, interfaces, address, network_value, is_mgmt))

AddNdiOnly(address, network_value, nodeid, is_mgmt) ==
    Build(BuilderCall("add_ndi_only", <<address, network_value, is_mgmt, nodeid>>),
          add_ndi_only(builder, interfaces, address, network_value, nodeid, is_mgmt))

BuilderRemoveVlan(vid) ==
    Build(BuilderCall("builder.remove_vlan", <<vid>>),
          remove_vlan_builder(builder, interfaces, vid))

\* the request of a dispatch and what it leaves behind, d its outcome
Send(c, b, d) ==
    /\ builder' = [b EXCEPT !.state = "done"]
    /\ interfaces' = d.intfs
    /\ routing' = IF d.status = "ok" THEN ServerRouting(routing, d.intfs) ELSE routing
    /\ requests' = <<d.request>>
    /\ cache_valid' = ~d.reset
    /\ pre' = interfaces
    /\ call' = c
    /\ outcome' = [status |-> d.status, ret |-> NoneA]
    /\ UNCHANGED <<engine_type, prev, credentials>>

\* dispatch(instance, builder, interface) of the open builder
DispatchBuilder(server_ok) ==
    /\ builder.state = "open"
    /\ Send(BuilderCall("dispatch", <<>>), [builder EXCEPT !.before = builder.data],
            dispatch(builder.data, builder.interface, interfaces, server_ok))

\* add_layer3_vlan_interface: r the outcome of the add on the fresh builder
AddAndDispatch(c, r, server_ok) ==
    IF r.status # "ok"
    THEN /\ builder' = [r.builder EXCEPT !.state = "done"]
         /\ interfaces' = r.intfs
         /\ pre' = interfaces
         /\ call' = c
         /\ outcome' = [status |-> r.status, ret |-> NoneA]
         /\ requests' = <<>>
         /\ UNCHANGED <<engine_type, routing, cache_valid, prev, credentials>>
    ELSE /\ Send(c, r.builder,
                 dispatch(r.builder.data, r.builder.interface, r.intfs, server_ok))

AddLayer3VlanInterface(interface_id, vid, address, network_value, server_ok) ==
    /\ builder = NoBuilder
    /\ AddAndDispatch(
          BuilderCall("add_layer3_vlan_interface",
                      <<interface_id, vid, address, network_value>>),
          add_layer3_vlan_interface(getBuilder(interfaces, interface_id), interfaces,
                                    engine_type, vid, address, network_value,
                                    NoneA, NoneA),
          server_ok)

AddLayer3Interface(interface_id, address, network_value, zone_ref, is_mgmt, comment, server_ok) ==
    /\ builder = NoBuilder
    /\ AddAndDispatch(
          BuilderCall("add_layer3_interface",
                      <<interface_id, address, network_value, zone_ref, is_mgmt, comment>>),
          add_layer3_interface(getBuilder(interfaces, interface_id), interfaces,
                               engine_type, address, network_value, zone_ref,
                               is_mgmt, comment),
          server_ok)

AddLayer3ClusterInterface(interface_id, cluster_virtual, network_value, macaddress, nodes, zone_ref, comment, server_ok) ==
    /\ builder = NoBuilder
    /\ AddAndDispatch(
          BuilderCall("add_layer3_cluster_interface",
                      <<interface_id, cluster_virtual, network_value, macaddress,
                        nodes, zone_ref, comment>>),
          add_layer3_cluster_interface(getBuilder(interfaces, interface_id), interfaces,
                                       interface_id, cluster_virtual, network_value,
                                       macaddress, nodes, "packetdispatch", zone_ref,
                                       FALSE, comment),
          server_ok)

AddLayer3VlanClusterInterface(interface_id, vid, nodes, cluster_virtual, network_value, macaddress, server_ok) ==
    /\ builder = NoBuilder
    /\ AddAndDispatch(
          BuilderCall("add_layer3_vlan_cluster_interface",
                      <<interface_id, vid, nodes, cluster_virtual, network_value,
                        macaddress>>),
          add_layer3_vlan_cluster_interface(getBuilder(interfaces, interface_id),
                                            interfaces, vid, nodes, cluster_virtual,
                                            network_value, macaddress, "packetdispatch",
                                            NoneA, NoneA),
          server_ok)

\* the ids a builder is asked for: an interface with VLANs, a new one, a
\* VLAN, half of an inline pair
BuilderIds == {ID("2"), ID("9"), Dot(ID("2"), ID("5")), ID("4"), Dot(ID("5"), ID("7"))}
BuilderVlans == {ID("5"), ID("6")}
BuilderNodes ==
    { <<>>,
      << [address |-> "a8", network_value |-> "n7", nodeid |-> 1],
         [address |-> "a9", network_value |-> "n7", nodeid |-> 2] >> }
InlineTypes == {"inline_interface", "inline_l2fw_interface", "inline_ips_interface"}

\* the interfaces with a zone, a comment, a MAC address and a CVI mode
Annotated(intfs) ==
    [k \in DOMAIN intfs |->
        SetKey([intfs[k] EXCEPT !.zone_ref = "href:zoneB", !.comment = "text",
                                !.macaddress = "mac"],
               "cvi_mode", "packetdispatch")]

InitBuilder ==
    /\ \E e \in ChangeShapes :
          /\ engine_type = e.type
          /\ interfaces = Annotated(e.intfs)
    /\ routing = RoutesOf(interfaces)
    /\ requests = <<>>
    /\ cache_valid = TRUE
    /\ pre = interfaces
    /\ call = NoCall
    /\ prev = NoPrev
    /\ outcome = Idle
    /\ builder = NoBuilder
    /\ credentials = NoCredentials

NextBuilder ==
    \/ \E interface_id \in BuilderIds : GetBuilder(interface_id)
    \/ \E vid \in BuilderVlans, zone_ref \in ZoneArgs : AddVlanOnly(vid, zone_ref, NoneA)
    \/ \E vid \in BuilderVlans : AddSniToVlan("a7", "n7", vid)
    \/ \E vid \in BuilderVlans, nodeid \in {1, 2} : AddNdiToVlan("a8", "n7", vid, nodeid)
    \/ \E vid \in BuilderVlans : AddCviToVlan("a9", "n7", vid)
    \/ \E vid \in BuilderVlans \cup {JoinDash(<<ID("7"), ID("8")>>)} : BuilderRemoveVlan(vid)
    \/ \E vid \in {None, ID("5")}, vid2 \in {None, ID("6")}, if_type \in InlineTypes :
          AddL2Inline(JoinDash(<<ID("8"), ID("9")>>), vid, vid2, if_type)
    \/ \E is_mgmt \in BOOLEAN : AddCviOnly("a4", "n4", is_mgmt)
    \/ \E is_mgmt \in BOOLEAN : AddSniOnly("a5", "n4", is_mgmt)
    \/ \E is_mgmt \in BOOLEAN, nodeid \in {1, 2} : AddNdiOnly("a6", "n4", nodeid, is_mgmt)
    \/ \E server_ok \in BOOLEAN : DispatchBuilder(server_ok)
    \/ \E interface_id \in BuilderIds, vid \in BuilderVlans, address \in {NoneA, "a7"},
          server_ok \in BOOLEAN :
          AddLayer3VlanInterface(interface_id, vid, address, "n7", server_ok)
    \/ \E interface_id \in BuilderIds \cup {ID("1")}, zone_ref \in ZoneArgs,
          is_mgmt \in BOOLEAN, comment \in {NoneA, "new text"}, server_ok \in BOOLEAN :
          AddLayer3Interface(interface_id, "a7", "n7", zone_ref, is_mgmt, comment, server_ok)
    \/ \E interface_id \in {ID("1"), ID("2"), ID("9")}, cluster_virtual \in {NoneA, "a7"},
          macaddress \in {NoneA, "mac2"}, nodes \in BuilderNodes, zone_ref \in ZoneArgs,
          comment \in {NoneA, "new text"}, server_ok \in BOOLEAN :
          AddLayer3ClusterInterface(interface_id, cluster_virtual, "n7", macaddress,
                                    nodes, zone_ref, comment, server_ok)
    \/ \E interface_id \in {ID("1"), ID("2"), ID("9")}, vid \in BuilderVlans,
          nodes \in BuilderNodes, cluster_virtual \in {NoneA, "a7"},
          macaddress \in {NoneA, "mac2"}, server_ok \in BOOLEAN :
          AddLayer3VlanClusterInterface(interface_id, vid, nodes, cluster_virtual, "n7",
                                        macaddress, server_ok)

SpecBuilder == InitBuilder /\ [][NextBuilder]_vars

-----------------------------------------------------------------------------
(* Claims C13 - C20: the builder, dispatch and the lookups                 *)

\* the add_* operations of an interface collection that load a builder and
\* dispatch it
AddOps ==
    {"add_layer3_interface", "add_layer3_cluster_interface",
     "add_layer3_vlan_interface", "add_layer3_vlan_cluster_interface"}

\* a dispatch was made by the last call
Dispatched ==
    /\ call.op \in {"dispatch"} \cup AddOps
    /\ outcome.status \in {"ok", "EngineCommandFailed"}

\* C13: a dispatch issues exactly one request: an update with the href and
\* the etag of the existing interface when one was given, a create against
\* the collection otherwise, with the builder's data as body; the engine
\* cache is reset when the request succeeded and only then.
C13_DispatchOneRequest ==
    Dispatched =>
        /\ Len(requests) = 1
        /\ requests[1].json = builder.data
        /\ builder.interface # NotFound =>
              /\ requests[1].method = "update"
              /\ requests[1].href = builder.interface
              /\ requests[1].etag = ETag(builder.interface)
        /\ builder.interface = NotFound =>
              /\ requests[1].method = "create"
              /\ requests[1].href = "collection"
        /\ ~cache_valid <=> outcome.status = "ok"

C13_Witness ==
    /\ call.op = "dispatch"
    /\ builder.interface # NotFound
    /\ builder.nops > 0
    /\ outcome.status = "ok"
    /\ requests[1].method = "update"
    /\ ~cache_valid


\* what InterfaceModifier.get finds for the id getBuilder was asked for
Asked == Get(pre, call.args[1])

\* C14: getBuilder returns the builder and the interface: when an interface
\* of that id exists the builder's data is that interface's JSON and the
\* interface is that object; otherwise the builder is empty but for its
\* interface_id and the interface is None.  Nothing is sent.
C14_GetBuilderLoadsOrStartsEmpty ==
    call.op = "getBuilder" =>
        /\ Asked # NotFound =>
              /\ builder.interface = Asked
              /\ builder.data = RefData(pre, Asked)
        /\ Asked = NotFound =>
              /\ builder.interface = NotFound
              /\ builder.data.interface_id = call.args[1]
              /\ builder.data.interfaces = <<>>
              /\ builder.data.vlanInterfaces = <<>>
              /\ builder.data.zone_ref = NoneA
              /\ DOMAIN builder.data =
                    {"interface_id", "interfaces", "vlanInterfaces", "zone_ref"}
        /\ interfaces = pre
        /\ requests = <<>>

C14_Witness ==
    /\ call.op = "getBuilder"
    /\ Asked # NotFound
    /\ Asked.kind = "top"
    /\ builder.interface = Asked
    /\ Len(builder.data.vlanInterfaces) > 0
    /\ builder.data = pre[Asked.i]


\* the composite id InterfaceBuilder.remove_vlan was asked to remove
Removed == Dot(Str(builder.before.interface_id), Str(call.args[1]))

\* the places of the draft before the call whose fragment has another id
Others ==
    {j \in DOMAIN builder.before.vlanInterfaces :
        builder.before.vlanInterfaces[j].interface_id # Removed}

\* C15: on a draft that has a list of VLANs, InterfaceBuilder.remove_vlan
\* raises nothing, leaves no fragment with the composite id, keeps every
\* other fragment in its original order and changes nothing else; a second
\* call with the same id leaves the draft unchanged.
C15_RemoveVlanFilters ==
    (/\ call.op = "builder.remove_vlan"
     /\ "vlanInterfaces" \in DOMAIN builder.before)
        => /\ outcome.status = "ok"
           /\ builder.data.vlanInterfaces = Pick(builder.before.vlanInterfaces, Others, 1)
           /\ \A j \in DOMAIN builder.data.vlanInterfaces :
                 builder.data.vlanInterfaces[j].interface_id # Removed
           /\ [builder.data EXCEPT !.vlanInterfaces = builder.before.vlanInterfaces]
                 = builder.before
           /\ Others = DOMAIN builder.before.vlanInterfaces
                 => builder.data = builder.before
           /\ builder_remove_vlan(builder.data, call.args[1]) = builder.data
           /\ requests = <<>>

C15_Witness ==
    /\ call.op = "builder.remove_vlan"
    /\ "vlanInterfaces" \in DOMAIN builder.before
    /\ Others # {}
    /\ Others # DOMAIN builder.before.vlanInterfaces
    /\ Len(builder.data.vlanInterfaces) = Cardinality(Others)
    /\ outcome.status = "ok"


\* C16 as stated: after Interface.remove_vlan(vlan_id) returns normally,
\* get_vlan(vlan_id) on the interface as fetched again finds no VLAN, for
\* every vlan_id that get_vlan accepts.
C16_RemovedVlanIsGone ==
    (/\ call.op = "remove_vlan"
     /\ outcome.status = "ok")
        => get_vlan(interfaces[call.k], call.args[1]) = 0

\* C17 as stated: Interface.remove_vlan(vlan_id) for a VLAN the interface
\* does not have raises no error, commits nothing and deletes no routing
\* entry.
C17_RemoveAbsentVlanIsNoOp ==
    (/\ call.op = "remove_vlan"
     /\ get_vlan(pre[call.k], call.args[1]) = 0)
        => /\ outcome.status = "ok"
           /\ requests = <<>>
           /\ interfaces = pre


\* C18 as stated: after any sequence of add_vlan_only, add_sni_to_vlan,
\* add_ndi_to_vlan and add_cvi_to_vlan the draft's list of VLANs holds at
\* most one fragment per composite id.
C18_OneFragmentPerCompositeId ==
    (/\ builder.state = "open"
     /\ "vlanInterfaces" \in DOMAIN builder.data)
        => \A i, j \in DOMAIN builder.data.vlanInterfaces :
              builder.data.vlanInterfaces[i].interface_id
                 = builder.data.vlanInterfaces[j].interface_id => i = j


\* the body of the one request of the last call
Body == requests[1].json

\* C19: add_layer3_vlan_interface with an address, for an interface id the
\* engine does not have, issues one create request whose body has no
\* top-level sub-interface and exactly one VLAN fragment, of id
\* '<interface_id>.<vlan_id>', holding exactly one sub-interface with the
\* given address and network and the composite id as nicid: a single node
\* interface on a single_fw engine, a node interface otherwise.
C19_NewLayer3Vlan ==
    (/\ call.op = "add_layer3_vlan_interface"
     /\ Get(pre, call.args[1]) = NotFound
     /\ call.args[3] # NoneA)
        => /\ Len(requests) = 1
           /\ requests[1].method = "create"
           /\ Body.interface_id = call.args[1]
           /\ Body.interfaces = <<>>
           /\ Len(Body.vlanInterfaces) = 1
           /\ Body.vlanInterfaces[1].interface_id = Dot(call.args[1], call.args[2])
           /\ Len(Body.vlanInterfaces[1].interfaces) = 1
           /\ AddressOf(Body.vlanInterfaces[1].interfaces[1]) = call.args[3]
           /\ NetworkOf(Body.vlanInterfaces[1].interfaces[1]) = call.args[4]
           /\ Body.vlanInterfaces[1].interfaces[1].nicid = Dot(call.args[1], call.args[2])
           /\ Body.vlanInterfaces[1].interfaces[1].typeof =
                 IF engine_type = "single_fw" THEN "single_node_interface"
                 ELSE "node_interface"

C19_Witness ==
    /\ call.op = "add_layer3_vlan_interface"
    /\ Get(pre, call.args[1]) = NotFound
    /\ call.args[3] # NoneA
    /\ engine_type = "fw_cluster"
    /\ outcome.status = "ok"
    /\ Len(interfaces) = Len(pre) + 1
    /\ Body.vlanInterfaces[1].interfaces[1].typeof = "node_interface"


\* the id InterfaceModifier.get was asked for, as a string
AskedId == Str(call.args[1])

\* the top-level interfaces of that id
TopHits == {TopRef(k) : k \in {i \in DOMAIN pre : pre[i].interface_id = AskedId}}

\* the VLAN fragments of that id on the interface named before the dot
VlanHits ==
    UNION {{VlanRef(k, v) : v \in {w \in DOMAIN pre[k].vlanInterfaces :
                                      /\ pre[k].vlanInterfaces[w].interface_id = AskedId
                                      /\ pre[k].interface_id = Split(AskedId, ".")[1]}} :
           k \in DOMAIN pre}

\* the top-level inline interfaces whose pair id is the id or has it as a half
InlineHits ==
    {TopRef(k) : k \in {i \in DOMAIN pre :
        \E n \in DOMAIN pre[i].interfaces :
            /\ IsInline(pre[i].interfaces[n])
            /\ \/ AskedId = pre[i].interfaces[n].nicid
               \/ AskedId \in Range(Split(pre[i].interfaces[n].nicid, "-"))}}

\* C20 as stated: InterfaceModifier.get returns the top-level interface of
\* that id; for a composite id 'X.Y' whose fragment interface X holds, that
\* VLAN; for the pair id of an inline interface or either half of it, the
\* inline top-level interface; and InterfaceNotFound exactly when there is
\* none of these.
C20_GetResolvesEveryId ==
    call.op = "getBuilder" =>
        /\ TopHits # {} => builder.interface \in TopHits
        /\ (TopHits = {} /\ VlanHits # {}) => builder.interface \in VlanHits
        /\ (TopHits = {} /\ VlanHits = {} /\ InlineHits # {})
              => builder.interface \in InlineHits
        /\ builder.interface = NotFound
              <=> (TopHits = {} /\ VlanHits = {} /\ InlineHits = {})

-----------------------------------------------------------------------------
(* TLS server credentials (smc.administration.certificates).  The          *)
(* management server keeps the elements; the client creates them and       *)
(* sends commands to them.                                                 *)

CertNames == {"tls1", "tls2"}

\* the element the server makes of the JSON of a create request
NewCredential(json) ==
    [certificate_state |-> json.certificate_state,
     certificate |-> FALSE, private_key |-> FALSE]

\* create_csr that asks for an element in state 'request'
create_csr_request(name, common_name) ==
    << [resource |-> "create", name |-> name, exception |-> "CreateElementFailed",
        file_ok |-> TRUE,
        json |-> [name |-> name, info |-> common_name,
                  certificate_state |-> "request"]] >>

\* TLSServerCredential.create_csr(name, common_name): the requests it sends
create_csr(name, common_name) ==
    << [resource |-> "create", name |-> name, exception |-> "CreateElementFailed",
        file_ok |-> TRUE,
        json |-> [name |-> name, info |-> common_name,
                  certificate_state |-> "initial"]] >>

\* TLSServerCredential.self_sign()
self_sign(name) ==
    << [resource |-> "self_sign", name |-> name, exception |-> "ActionCommandFailed",
        file_ok |-> TRUE] >>

\* TLSServerCredential.certificate_import(certificate); file_ok: the file
\* can be opened
certificate_import(name, file_ok) ==
    << [resource |-> "certificate_import", name |-> name,
        exception |-> "CertificateImportError", file_ok |-> file_ok] >>

\* TLSServerCredential.private_key_import(private_key)
private_key_import(name, file_ok) ==
    << [resource |-> "private_key_import", name |-> name,
        exception |-> "CertificateImportError", file_ok |-> file_ok] >>

\* TLSServerCredential.self_signed(name, common_name)
self_signed(name, common_name) == create_csr(name, common_name) \o self_sign(name)

\* TLSServerCredential.import_signed(name, certificate_file, private_key_file)
import_signed(name, certificate_ok, private_key_ok) ==
    << [resource |-> "create", name |-> name, exception |-> "CreateElementFailed",
        file_ok |-> TRUE,
        json |-> [name |-> name, certificate_state |-> "certificate"]] >>
    \o certificate_import(name, certificate_ok)
    \o private_key_import(name, private_key_ok)

\* the server can accept the request: a create needs a free name, a command
\* an element, self_sign one that is not yet a certificate
ServerCan(creds, q) ==
    IF q.resource = "create" THEN q.name \notin DOMAIN creds
    ELSE /\ q.name \in DOMAIN creds
         /\ q.resource = "self_sign" => creds[q.name].certificate_state # "certificate"

\* the elements after the server accepted the request
ServerDoes(creds, q) ==
    CASE q.resource = "create" -> creds @@ (q.name :> NewCredential(q.json))
      [] q.resource = "self_sign" ->
            [creds EXCEPT ![q.name] = [certificate_state |-> "certificate",
                                       certificate |-> TRUE, private_key |-> TRUE]]
      [] q.resource = "certificate_import" ->
            [creds EXCEPT ![q.name].certificate_state = "certificate",
                          ![q.name].certificate = TRUE]
      [] q.resource = "private_key_import" ->
            [creds EXCEPT ![q.name].private_key = TRUE]

\* the state the element of a request is in when the request arrives
StateOf(creds, name) ==
    IF name \in DOMAIN creds THEN creds[name].certificate_state ELSE "none"

\* what is sent for a request: the request and the state it found
Sent(creds, q) ==
    IF q.resource = "create"
    THEN [resource |-> q.resource, name |-> q.name, found |-> StateOf(creds, q.name),
          json |-> q.json]
    ELSE [resource |-> q.resource, name |-> q.name, found |-> StateOf(creds, q.name)]

\* the requests of an operation sent in order until one fails; oks: the
\* server's willingness, request by request
RECURSIVE Exec(_, _, _, _)
Exec(creds, qs, oks, log) ==
    IF qs = <<>> THEN [status |-> "ok", credentials |-> creds, log |-> log]
    ELSE IF ~Head(qs).file_ok
    THEN [status |-> "IOError", credentials |-> creds, log |-> log]
    ELSE IF ~(Head(oks) /\ ServerCan(creds, Head(qs)))
    THEN [status |-> Head(qs).exception, credentials |-> creds,
          log |-> Append(log, Sent(creds, Head(qs)))]
    ELSE Exec(ServerDoes(creds, Head(qs)), Tail(qs), Tail(oks),
              Append(log, Sent(creds, Head(qs))))

\* one operation of the client on the credentials, r its outcome
CertCall(c, r) ==
    /\ credentials' = r.credentials
    /\ requests' = r.log
    /\ call' = c
    /\ outcome' = [status |-> r.status, ret |-> NoneA]
    /\ UNCHANGED <<engine_type, interfaces, routing, cache_valid, pre, prev, builder>>

CreateCsr(name, oks) ==
    CertCall([op |-> "create_csr", k |-> 0, args |-> <<name>>],
             Exec(credentials, create_csr(name, "CN"), oks, <<>>))

SelfSigned(name, oks) ==
    CertCall([op |-> "self_signed", k |-> 0, args |-> <<name>>],
             Exec(credentials, self_signed(name, "CN"), oks, <<>>))

ImportSigned(name, certificate_ok, private_key_ok, oks) ==
    CertCall([op |-> "import_signed", k |-> 0, args |-> <<name>>],
             Exec(credentials, import_signed(name, certificate_ok, private_key_ok),
                  oks, <<>>))

SelfSign(name, oks) ==
    /\ name \in DOMAIN credentials
    /\ CertCall([op |-> "self_sign", k |-> 0, args |-> <<name>>],
                Exec(credentials, self_sign(name), oks, <<>>))

CertificateImport(name, file_ok, oks) ==
    /\ name \in DOMAIN credentials
    /\ CertCall([op |-> "certificate_import", k |-> 0, args |-> <<name>>],
                Exec(credentials, certificate_import(name, file_ok), oks, <<>>))

PrivateKeyImport(name, file_ok, oks) ==
    /\ name \in DOMAIN credentials
    /\ CertCall([op |-> "private_key_import", k |-> 0, args |-> <<name>>],
                Exec(credentials, private_key_import(name, file_ok), oks, <<>>))

\* the server has generated the signing request of an element
ServerIssuesRequest(name) ==
    /\ name \in DOMAIN credentials
    /\ credentials[name].certificate_state = "initial"
    /\ credentials' = [credentials EXCEPT ![name].certificate_state = "request"]
    /\ UNCHANGED <<engine_type, interfaces, routing, requests, cache_valid, pre,
                   call, prev, outcome, builder>>

\* the server's answers to the up to three requests of an operation
Answers == [1..3 -> BOOLEAN]

InitCert ==
    /\ engine_type = "single_fw"
    /\ interfaces = <<>>
    /\ routing = {}
    /\ requests = <<>>
    /\ cache_valid = TRUE
    /\ pre = <<>>
    /\ call = NoCall
    /\ prev = NoPrev
    /\ outcome = Idle
    /\ builder = NoBuilder
    /\ credentials = NoCredentials

NextCert ==
    \/ \E name \in CertNames, oks \in Answers : CreateCsr(name, oks)
    \/ \E name \in CertNames, oks \in Answers : SelfSigned(name, oks)
    \/ \E name \in CertNames, certificate_ok \in BOOLEAN, private_key_ok \in BOOLEAN,
          oks \in Answers : ImportSigned(name, certificate_ok, private_key_ok, oks)
    \/ \E name \in CertNames, oks \in Answers : SelfSign(name, oks)
    \/ \E name \in CertNames, file_ok \in BOOLEAN, oks \in Answers :
          CertificateImport(name, file_ok, oks)
    \/ \E name \in CertNames, file_ok \in BOOLEAN, oks \in Answers :
          PrivateKeyImport(name, file_ok, oks)
    \/ \E name \in CertNames : ServerIssuesRequest(name)

SpecCert == InitCert /\ [][NextCert]_vars

-----------------------------------------------------------------------------
(* Claims C21 - C30 *)

\* the new id change_interface_id was given, and its left half
NewId == Str(call.args[1])
NewLeft == Split(NewId, "-")[1]

\* the sub-interfaces of the interface the id of which was changed
Renamed == {p \in SubPaths(pre) : p.i = call.k}

\* the nic id a sub-interface is to have under the new interface id
NewNicid(p) ==
    LET old == SubAt(pre, p).nicid
        halves == Split(old, "-")
    IN  IF IsInline(SubAt(pre, p))
        THEN IF p.v = 0 THEN NewId
             ELSE Dot(NewLeft, Last(Split(halves[1], "."))) \o <<"-">>
                  \o Dot(Last(Split(NewId, "-")), Last(Split(Last(halves), ".")))
        ELSE IF p.v = 0 THEN NewLeft
        ELSE Dot(NewLeft, Last(Split(old, ".")))

\* C21: once change_interface_id(new) is committed the interface has the id
\* new (the left half of an inline pair), every VLAN 'X.v' is 'new.v', every
\* top-level and VLAN-nested sub-interface has the nic id of the new
\* interface id (an inline sub-interface that of the new pair, its VLAN tags
\* kept), nothing else has changed and exactly one request was sent.
C21_ChangeInterfaceIdRelabels ==
    (/\ call.op = "change_interface_id"
     /\ outcome.status = "ok"
     /\ (\E p \in Renamed : IsInline(SubAt(pre, p))) => "-" \in Range(NewId))
        => /\ interfaces[call.k].interface_id = NewLeft
           /\ Len(interfaces[call.k].vlanInterfaces) = Len(pre[call.k].vlanInterfaces)
           /\ \A v \in DOMAIN pre[call.k].vlanInterfaces :
                 interfaces[call.k].vlanInterfaces[v].interface_id =
                    Dot(NewLeft, Last(Split(pre[call.k].vlanInterfaces[v].interface_id, ".")))
           /\ SubPaths(interfaces) = SubPaths(pre)
           /\ \A p \in SubPaths(pre) :
                 SubAt(interfaces, p) =
                    IF p \in Renamed
                    THEN [SubAt(pre, p) EXCEPT !.nicid = NewNicid(p)]
                    ELSE SubAt(pre, p)
           /\ \A i \in DOMAIN pre : i # call.k => interfaces[i] = pre[i]
           /\ Len(requests) = 1
           /\ requests[1].method = "update"
           /\ requests[1].href = call.k
           /\ requests[1].json = interfaces[call.k]

C21_Witness ==
    /\ call.op = "change_interface_id"
    /\ outcome.status = "ok"
    /\ prev = NoPrev
    /\ pre[call.k].interface_id = ID("2")
    /\ NewId = ID("8")
    /\ interfaces[call.k].vlanInterfaces[1].interface_id = Dot(ID("8"), ID("5"))
    /\ interfaces[call.k].vlanInterfaces[1].interfaces[1].nicid = Dot(ID("8"), ID("5"))


\* the inline and capture sub-interfaces of an interface body, VLANs included
Layer2Subs(intf) ==
    {s \in Range(intf.interfaces) : IsInline(s) \/ s.typeof = "capture_interface"}
    \cup UNION {{s \in Range(intf.vlanInterfaces[v].interfaces) :
                    IsInline(s) \/ s.typeof = "capture_interface"} :
                v \in DOMAIN intf.vlanInterfaces}

\* C22 as stated: every inline or capture sub-interface the interface had
\* before reset_interface is still in the body that reset_interface commits.
C22_ResetKeepsInlineAndCapture ==
    (/\ call.op = "reset_interface"
     /\ requests # <<>>
     /\ ~cache_valid)
        => Layer2Subs(pre[call.k]) \subseteq Layer2Subs(requests[1].json)


\* ModificationAborted arises inside the call: the interface has VLANs and
\* the call names none
AbortedInside ==
    /\ call.op \in {"change_single_interface", "change_cluster_interface"}
    /\ Len(pre[call.k].vlanInterfaces) > 0
    /\ VlanArg = None

\* InterfaceNotFound arises inside the call: get_vlan finds no such VLAN
VlanNotFoundInside ==
    \/ /\ call.op \in {"change_single_interface", "change_cluster_interface"}
       /\ ~AbortedInside
       /\ VlanArg # None
       /\ get_vlan(pre[call.k], VlanArg) = 0
    \/ /\ call.op \in {"remove_vlan", "change_vlan_id"}
       /\ get_vlan(pre[call.k], call.args[1]) = 0

\* the remote call fails inside the call: the update was sent and the engine
\* cache was not reset
RejectedInside == requests # <<>> /\ cache_valid

\* InterfaceNotFound arises inside reset_interface: the update was stored
\* and engine.routing has no node of the interface's id, so there was
\* nothing to delete
RouteNotFoundInside ==
    /\ call.op = "reset_interface"
    /\ ~cache_valid
    /\ DeleteRequests = <<>>

Resources == [n \in DOMAIN requests |-> requests[n].resource]

\* seq is the beginning of full
IsPrefix(seq, full) ==
    /\ Len(seq) <= Len(full)
    /\ \A n \in DOMAIN seq : seq[n] = full[n]

\* how far a certificate_state is on the way initial, request, certificate
CertRank(state) ==
    CASE state = "initial" -> 1 [] state = "request" -> 2 [] state = "certificate" -> 3
      [] OTHER -> 0

\* what create_csr and self_signed send
CsrRequests ==
    /\ call.op = "create_csr" =>
          /\ Resources = <<"create">>
          /\ requests[1].json.certificate_state = "initial"
    /\ call.op = "self_signed" =>
          /\ Resources # <<>>
          /\ IsPrefix(Resources, <<"create", "self_sign">>)
          /\ requests[1].json.certificate_state = "initial"
          /\ outcome.status = "ok" => Resources = <<"create", "self_sign">>

\* C24 as stated: create_csr creates the element in state 'initial',
\* self_signed is create_csr followed by self_sign, and import_signed imports
\* the certificate, and after it the private key, into an element that is in
\* state 'initial' or 'request'.
C24_ImportFromInitialOrRequest ==
    /\ CsrRequests
    /\ call.op = "import_signed" =>
          /\ IsPrefix(Resources, <<"create", "certificate_import", "private_key_import">>)
          /\ \A n \in DOMAIN requests :
                requests[n].resource # "create"
                   => requests[n].found \in {"initial", "request"}

\* import_signed creates the element in state 'certificate' and imports
\* into that, the certificate first
ImportRequests ==
    call.op = "import_signed" =>
        /\ IsPrefix(Resources, <<"create", "certificate_import", "private_key_import">>)
        /\ Resources # <<>> => requests[1].json.certificate_state = "certificate"
        /\ \A n \in DOMAIN requests :
              requests[n].resource # "create" => requests[n].found = "certificate"
        /\ outcome.status = "ok" =>
              Resources = <<"create", "certificate_import", "private_key_import">>

\* no step takes the certificate_state of an element back
Forward ==
    \A name \in DOMAIN credentials :
        /\ name \in DOMAIN credentials'
        /\ CertRank(credentials'[name].certificate_state)
              >= CertRank(credentials[name].certificate_state)

\* C24 amended: create_csr creates the element in state 'initial',
\* self_signed is create_csr followed by self_sign, import_signed creates the
\* element in state 'certificate' and then imports the certificate and after
\* it the private key, and no operation takes a certificate_state back.
C24_StateOnlyMovesForward ==
    /\ [](CsrRequests /\ ImportRequests)
    /\ [][Forward]_vars

C24_Witness ==
    /\ call.op = "import_signed"
    /\ outcome.status = "ok"
    /\ Resources = <<"create", "certificate_import", "private_key_import">>
    /\ credentials[call.args[1]] =
          [certificate_state |-> "certificate", certificate |-> TRUE, private_key |-> TRUE]
    /\ \E name \in DOMAIN credentials : credentials[name].certificate_state = "request"


\* the draft started empty and only add_l2_inline was called on it
OnlyL2Inline ==
    /\ builder.state = "open"
    /\ builder.interface = NotFound
    /\ builder.ops # <<>>
    /\ \A n \in DOMAIN builder.ops : builder.ops[n] = "add_l2_inline"

\* the VLAN the last add_l2_inline added
AddedVlan == builder.data.vlanInterfaces[Len(builder.data.vlanInterfaces)]

\* the pair id with the VLAN tags the last add_l2_inline is to give it
TaggedPair ==
    LET pair == Split(call.args[1], "-")
        second == IF call.args[4] = "inline_interface" /\ call.args[3] # None
                  THEN call.args[3] ELSE call.args[2]
    IN  Dot(pair[1], call.args[2]) \o <<"-">> \o Dot(Last(pair), second)

\* C25: after add_l2_inline calls on a draft that started empty the draft
\* holds exactly one base inline interface, created by the first call; a
\* call with a vlan_id adds one VLAN '<first half of the pair>.<vlan_id>'
\* holding one inline sub-interface whose two tags are vlan_id, the second
\* being vlan_id2, when given, for the plain InlineInterface; a call without
\* a vlan_id adds no VLAN.
C25_OneBaseInlineFragment ==
    OnlyL2Inline =>
        /\ Len(builder.data.interfaces) = 1
        /\ IsInline(builder.data.interfaces[1])
        /\ (call.op = "add_l2_inline" /\ outcome.status = "ok") =>
              /\ Len(builder.ops) = 1 =>
                    /\ builder.data.interfaces[1].typeof = call.args[4]
                    /\ builder.data.interfaces[1].nicid = call.args[1]
              /\ Len(builder.ops) > 1 => builder.data.interfaces = builder.before.interfaces
              /\ call.args[2] = None =>
                    builder.data.vlanInterfaces = builder.before.vlanInterfaces
              /\ call.args[2] # None =>
                    /\ builder.data.vlanInterfaces =
                          Append(builder.before.vlanInterfaces, AddedVlan)
                    /\ AddedVlan.interface_id =
                          Dot(Split(call.args[1], "-")[1], call.args[2])
                    /\ Len(AddedVlan.interfaces) = 1
                    /\ AddedVlan.interfaces[1].typeof = call.args[4]
                    /\ AddedVlan.interfaces[1].nicid = TaggedPair

C25_Witness ==
    /\ OnlyL2Inline
    /\ Len(builder.ops) = 2
    /\ call.op = "add_l2_inline"
    /\ outcome.status = "ok"
    /\ call.args[2] # None
    /\ call.args[3] # None
    /\ call.args[4] = "inline_interface"
    /\ Len(builder.data.interfaces) = 1
    /\ Len(builder.data.vlanInterfaces) = 2
    /\ AddedVlan.interfaces[1].nicid =
          Dot(ID("8"), ID("5")) \o <<"-">> \o Dot(ID("9"), ID("6"))


\* the sub-interface the last add_*_only appended
AddedSub == builder.data.interfaces[Len(builder.data.interfaces)]

\* the flags that are true on a sub-interface
TrueFlags(s) ==
    {key \in {"auth_request", "outgoing", "primary_mgt", "backup_mgt",
              "primary_heartbeat", "backup_heartbeat"} : Truthy(s, key)}

\* the type add_*_only creates and the flags it sets for is_mgmt
OnlyType ==
    CASE call.op = "add_sni_only" -> "single_node_interface"
      [] call.op = "add_ndi_only" -> "node_interface"
      [] call.op = "add_cvi_only" -> "cluster_virtual_interface"
MgmtFlags ==
    CASE call.op = "add_sni_only" -> {"auth_request", "outgoing", "primary_mgt"}
      [] call.op = "add_ndi_only" -> {"primary_mgt", "outgoing", "primary_heartbeat"}
      [] call.op = "add_cvi_only" -> {"auth_request"}

OnExisting == call.op \in AddOps /\ Get(pre, call.args[1]) # NotFound

\* C27: when the commit of an add_* operation on an existing interface
\* fails with EngineCommandFailed, the engine's cached interface data is
\* the same as before the call
C27_FailedCommitLeavesCache ==
    (OnExisting /\ outcome.status = "EngineCommandFailed") => interfaces = pre


\* the flags set_primary_mgt works on
MgmtMoved == {"primary_mgt", "outgoing", "auth_request"}

\* C28: when set_primary_mgt fails with InterfaceNotFound, no commit is
\* issued and no primary_mgt, outgoing or auth_request flag of the loaded
\* collection has changed
C28_FailedPrimaryMgtChangesNothing ==
    (call.op = "set_primary_mgt" /\ outcome.status = "InterfaceNotFound")
    => /\ requests = <<>>
       /\ Len(AllSubs(interfaces)) = Len(AllSubs(pre))
       /\ \A n \in DOMAIN AllSubs(pre), a \in MgmtMoved :
             Truthy(AllSubs(interfaces)[n], a) <=> Truthy(AllSubs(pre)[n], a)


\* C29: whenever change_cluster_interface has issued its commit and the
\* server stored it, the call returns True: no exception is raised after
\* the commit, also for a call with vlan_id and nodes but no network_value on
\* an interface whose sub-interfaces all live under VLANs
C29_CommittedChangeReturnsTrue ==
    (/\ call.op = "change_cluster_interface"
     /\ Len(UpdateRequests) = 1
     /\ ~cache_valid)
    => outcome = [status |-> "ok", ret |-> TRUE]


\* the top-level interface the add_* call in call was made on
AddTarget == Get(pre, call.args[1])

\* the top-level fields an add_* operation can carry over
TopFields == {"zone_ref", "comment", "macaddress", "cvi_mode"}

\* the value the caller passed for a top-level field, None when the call
\* passed none or the operation takes none for the interface itself
PassedFor(field) ==
    CASE call.op = "add_layer3_interface" ->
            IF field = "zone_ref" THEN call.args[4]
            ELSE IF field = "comment" THEN call.args[6] ELSE NoneA
      [] call.op = "add_layer3_cluster_interface" ->
            IF field = "zone_ref" THEN call.args[6]
            ELSE IF field = "comment" THEN call.args[7]
            ELSE IF field = "macaddress" THEN call.args[4] ELSE NoneA
      [] call.op = "add_layer3_vlan_cluster_interface" ->
            IF field = "macaddress" THEN call.args[6] ELSE NoneA
      [] OTHER -> NoneA

\* fragment f is fragment f0 with nothing but sub-interfaces added
GrownFrom(f, f0) ==
    /\ IsPrefix(f0.interfaces, f.interfaces)
    /\ [f EXCEPT !.interfaces = f0.interfaces] = f0

\* C30: the four add_layer3 operations called on an existing interface only
\* add: every sub-interface and VLAN fragment the interface had is still in
\* the committed body, unchanged but for what was added to it, and each
\* top-level field the caller passed no value for (zone_ref, comment,
\* macaddress, cvi_mode) has the value it had
C30_AddOnlyAdds ==
    (/\ call.op \in AddOps
     /\ AddTarget.kind = "top"
     /\ Len(requests) = 1)
    => /\ IsPrefix(pre[AddTarget.i].interfaces, Body.interfaces)
       /\ Len(pre[AddTarget.i].vlanInterfaces) <= Len(Body.vlanInterfaces)
       /\ \A n \in DOMAIN pre[AddTarget.i].vlanInterfaces :
             GrownFrom(Body.vlanInterfaces[n], pre[AddTarget.i].vlanInterfaces[n])
       /\ \A field \in TopFields :
             PassedFor(field) = NoneA => Body[field] = pre[AddTarget.i][field]

=============================================================================
